---- MODULE Spec2Model ----
(***************************************************************************)
(* Model of the ConfidentialTransmission ledger contract                   *)
(* (contracts/ConfidentialTransmission.sol) together with the protection   *)
(* runtime calls it makes (FHE.fromExternal, FHE.allow, FHE.allowThis) and *)
(* the authorized-decrypt request the client sends to the runtime          *)
(* (fhevmInstance.userDecrypt in WalletModal.tsx).                         *)
(*                                                                         *)
(* Every state-changing contract call is one atomic transaction of the     *)
(* host chain: a require that fails reverts the whole call.                *)
(***************************************************************************)
EXTENDS Integers, Sequences, FiniteSets, TLC

(***************************************************************************)
(* Bounds of the model.                                                    *)
(***************************************************************************)
\* number of messages that may be created in a run
MaxMessages == 2
\* largest block timestamp
MaxTime == 2
\* bytes of a content key in the model (32 in the program)
KeyBytes == 2
\* bytes of an address in the model (20 in the program)
AddrBytes == 2
\* bytes of an initialisation vector in the model (16 in the program)
IvBytes == 1
\* longest content given to the cipher, in bytes
MaxContentLen == 2
\* hexadecimal digits of a content key: keyHex.padStart(64, '0')
KeyHexLen == 2 * KeyBytes
\* hexadecimal digits of an address: senderHex.padStart(40, '0')
AddrHexLen == 2 * AddrBytes

(***************************************************************************)
(* Value domains.                                                          *)
(***************************************************************************)
\* address(0)
ZeroAddress == "0x0"
\* externally owned accounts
Users == {"alice", "bob"}
\* address(this), the deployed contract
ContractAddress == "this"
\* every address a view call may come from (eth_call may use address(0))
Addresses == Users \cup {ZeroAddress}
\* the zero handle of a storage slot never written
NoHandle == "0x00"
\* eaddress ciphertext handles the callers can supply
SenderHandles == {"s1", "s2"}
\* euint256 ciphertext handles the callers can supply
KeyHandles == {"k1", "k2"}
Handles == SenderHandles \cup KeyHandles
\* the sendMessage calls offered to the chain, as (signer, recipient, locator,
\* sender handle, key handle): both users sign, both receive, one sends to
\* itself, and handles are supplied once as well as again in a later call
SendSamples ==
    { [sender |-> "alice", recipient |-> "bob", contentCID |-> "Qm1",
       encryptedSender |-> "s1", encryptedKey |-> "k1"],
      [sender |-> "bob", recipient |-> "alice", contentCID |-> "Qm2",
       encryptedSender |-> "s2", encryptedKey |-> "k2"],
      [sender |-> "alice", recipient |-> "alice", contentCID |-> "Qm1",
       encryptedSender |-> "s1", encryptedKey |-> "k2"],
      [sender |-> "bob", recipient |-> "bob", contentCID |-> "Qm2",
       encryptedSender |-> "s2", encryptedKey |-> "k1"] }
\* the sendMessage transactions offered to the chain: each sample, with its
\* recipient or its locator possibly replaced by the invalid value, and each
\* proof either accepted or rejected by the runtime
SendCalls ==
    UNION {{[sender |-> smp.sender, recipient |-> r, contentCID |-> c,
             encryptedSender |-> smp.encryptedSender, senderProofOk |-> pS,
             encryptedKey |-> smp.encryptedKey, keyProofOk |-> pK] :
              r \in {smp.recipient, ZeroAddress}, c \in {smp.contentCID, ""},
              pS \in BOOLEAN, pK \in BOOLEAN} : smp \in SendSamples}
\* message ids examined; MaxMessages itself is never assigned
Ids == 0..MaxMessages
\* the two delete transactions that are in flight at the same time
Slots == {"tx1", "tx2"}

\* revert reasons and other outcomes
NoError == "ok"
ErrInvalidRecipient == "Invalid recipient"
ErrEmptyCID == "Empty content CID"
ErrSenderProof == "sender proof rejected"
ErrKeyProof == "key proof rejected"
ErrMessageDeleted == "Message deleted"
ErrNotAuthorized == "Not authorized"
ErrAlreadyDeleted == "Already deleted"
ErrDecryptionDenied == "user decrypt denied"

\* an address as the 160-bit integer the runtime encrypts and returns
AddressAsInt(a) ==
    CASE a = "alice" -> 10
      [] a = "bob" -> 11
      [] OTHER -> 0

\* the integers the runtime holds under each handle (never stored on the
\* ledger): the signer's address under a sender handle, an AES key under a key
\* handle
Cleartext(h) ==
    CASE h = "s1" -> AddressAsInt("alice")
      [] h = "s2" -> AddressAsInt("bob")
      [] h = "k1" -> 1
      [] h = "k2" -> 2
      [] OTHER -> 0

VARIABLES
    messages,          \* mapping(uint256 => Message)
    receivedMessages,  \* mapping(address => uint256[])
    sentMessages,      \* mapping(address => uint256[])
    messageCount,      \* uint256
    acl,               \* the runtime's persistent allowances, per handle
    events,            \* the event log of the contract
    now,               \* block.timestamp of the block being built
    ret,               \* the last call that was executed, and its outcome
    mempool,           \* the delete transactions in flight, and their receipts
    client,            \* the React state of the browser client (WalletModal.tsx)
    ipfs,              \* the documents pinned in the content store
    reads,             \* the invocations of handleDecryptMessage in flight
    clock,             \* Date.now() of the browser and the relayer, in days
    keypairsMade,      \* how many key pairs generateKeypair has made
    task,              \* the run of the command-line task confidential-transmission:send
    loading,           \* the React state loading of the browser client
    deletion,          \* the invocation of handleDeleteMessage in flight
    lastPrepare        \* history: the account and the recipient of the last
                       \* prepare that ended with a prepared message

vars == <<messages, receivedMessages, sentMessages, messageCount, acl, events,
          now, ret, mempool, client, ipfs, reads, clock, keypairsMade, task,
          loading, deletion, lastPrepare>>

\* the contract's storage together with the runtime's allowances and the log:
\* what a reverted transaction must leave untouched
Storage ==
    [messages |-> messages, receivedMessages |-> receivedMessages,
     sentMessages |-> sentMessages, messageCount |-> messageCount,
     acl |-> acl, events |-> events]

\* a storage slot of the messages mapping that was never written
DefaultMessage ==
    [encryptedSender |-> NoHandle, recipient |-> ZeroAddress, contentCID |-> "",
     encryptedKey |-> NoHandle, timestamp |-> 0, isDeleted |-> FALSE]

\* outcome of a call: the storage it leaves, its revert reason, and the tuple
\* of the values it returns
Outcome(st, err, val) == [st |-> st, err |-> err, val |-> val]

\* a failed require: the transaction reverts to the storage it started from
Revert(st0, reason) == Outcome(st0, reason, <<>>)

\* FHE.allow(handle, account) / FHE.allowThis(handle)
Allow(st, h, account) ==
    [st EXCEPT !.acl = [@ EXCEPT ![h] = @ \cup {account}]]

(***************************************************************************)
(* sendMessage                                                             *)
(***************************************************************************)
\* variant: the decryption rights go to msg.sender instead of _recipient
sendMessageEffects_GrantSigner(st, sender, ts, _recipient, _contentCID, _encryptedSender, _encryptedKey) ==
    LET s1 == Allow(st, _encryptedSender, sender)
        s2 == Allow(s1, _encryptedKey, sender)
        s3 == Allow(s2, _encryptedSender, ContractAddress)
        s4 == Allow(s3, _encryptedKey, ContractAddress)
        id == st.messageCount
        s5 == [s4 EXCEPT !.messages[id] =
                   [encryptedSender |-> _encryptedSender,
                    recipient |-> _recipient,
                    contentCID |-> _contentCID,
                    encryptedKey |-> _encryptedKey,
                    timestamp |-> ts,
                    isDeleted |-> FALSE]]
        s6 == [s5 EXCEPT !.receivedMessages[_recipient] = Append(@, id)]
        s7 == [s6 EXCEPT !.sentMessages[sender] = Append(@, id)]
        s8 == [s7 EXCEPT !.events = Append(@,
                   [name |-> "MessageSent", messageId |-> id,
                    recipient |-> _recipient, sender |-> sender,
                    contentCID |-> _contentCID, timestamp |-> ts])]
        s9 == [s8 EXCEPT !.messageCount = @ + 1]
    IN Outcome(s9, NoError, <<id>>)

\* variant: the new id is put at the front of the recipient's received list
sendMessageEffects_Prepends(st, sender, ts, _recipient, _contentCID, _encryptedSender, _encryptedKey) ==
    LET s1 == Allow(st, _encryptedSender, _recipient)
        s2 == Allow(s1, _encryptedKey, _recipient)
        s3 == Allow(s2, _encryptedSender, ContractAddress)
        s4 == Allow(s3, _encryptedKey, ContractAddress)
        id == st.messageCount
        s5 == [s4 EXCEPT !.messages[id] =
                   [encryptedSender |-> _encryptedSender,
                    recipient |-> _recipient,
                    contentCID |-> _contentCID,
                    encryptedKey |-> _encryptedKey,
                    timestamp |-> ts,
                    isDeleted |-> FALSE]]
        s6 == [s5 EXCEPT !.receivedMessages[_recipient] = <<id>> \o @]
        s7 == [s6 EXCEPT !.sentMessages[sender] = Append(@, id)]
        s8 == [s7 EXCEPT !.events = Append(@,
                   [name |-> "MessageSent", messageId |-> id,
                    recipient |-> _recipient, sender |-> sender,
                    contentCID |-> _contentCID, timestamp |-> ts])]
        s9 == [s8 EXCEPT !.messageCount = @ + 1]
    IN Outcome(s9, NoError, <<id>>)

\* variant: the record and the event hold the time left until MaxTime, not
\* the timestamp of the block
sendMessageEffects_TimeLeft(st, sender, ts, _recipient, _contentCID, _encryptedSender, _encryptedKey) ==
    LET s1 == Allow(st, _encryptedSender, _recipient)
        s2 == Allow(s1, _encryptedKey, _recipient)
        s3 == Allow(s2, _encryptedSender, ContractAddress)
        s4 == Allow(s3, _encryptedKey, ContractAddress)
        id == st.messageCount
        s5 == [s4 EXCEPT !.messages[id] =
                   [encryptedSender |-> _encryptedSender,
                    recipient |-> _recipient,
                    contentCID |-> _contentCID,
                    encryptedKey |-> _encryptedKey,
                    timestamp |-> MaxTime + 1 - ts,
                    isDeleted |-> FALSE]]
        s6 == [s5 EXCEPT !.receivedMessages[_recipient] = Append(@, id)]
        s7 == [s6 EXCEPT !.sentMessages[sender] = Append(@, id)]
        s8 == [s7 EXCEPT !.events = Append(@,
                   [name |-> "MessageSent", messageId |-> id,
                    recipient |-> _recipient, sender |-> sender,
                    contentCID |-> _contentCID,
                    timestamp |-> MaxTime + 1 - ts])]
        s9 == [s8 EXCEPT !.messageCount = @ + 1]
    IN Outcome(s9, NoError, <<id>>)

\* the body of sendMessage after its checks: the grants, the record, the two
\* indices, the event, the returned id and the counter
sendMessageEffects(st, sender, ts, _recipient, _contentCID, _encryptedSender, _encryptedKey) ==
    LET s1 == Allow(st, _encryptedSender, _recipient)
        s2 == Allow(s1, _encryptedKey, _recipient)
        s3 == Allow(s2, _encryptedSender, ContractAddress)
        s4 == Allow(s3, _encryptedKey, ContractAddress)
        id == st.messageCount
        s5 == [s4 EXCEPT !.messages[id] =
                   [encryptedSender |-> _encryptedSender,
                    recipient |-> _recipient,
                    contentCID |-> _contentCID,
                    encryptedKey |-> _encryptedKey,
                    timestamp |-> ts,
                    isDeleted |-> FALSE]]
        s6 == [s5 EXCEPT !.receivedMessages[_recipient] = Append(@, id)]
        s7 == [s6 EXCEPT !.sentMessages[sender] = Append(@, id)]
        s8 == [s7 EXCEPT !.events = Append(@,
                   [name |-> "MessageSent", messageId |-> id,
                    recipient |-> _recipient, sender |-> sender,
                    contentCID |-> _contentCID, timestamp |-> ts])]
        s9 == [s8 EXCEPT !.messageCount = @ + 1]
    IN Outcome(s9, NoError, <<id>>)

\* variant: msg.sender is granted the key as well
sendMessage_AlsoAllowsSigner(st, sender, ts, _recipient, _contentCID, _encryptedSender, senderProofOk, _encryptedKey, keyProofOk) ==
    IF _recipient = ZeroAddress THEN Revert(st, ErrInvalidRecipient)
    ELSE IF _contentCID = "" THEN Revert(st, ErrEmptyCID)
    ELSE IF ~senderProofOk THEN Revert(st, ErrSenderProof)
    ELSE IF ~keyProofOk THEN Revert(st, ErrKeyProof)
    ELSE LET out == sendMessageEffects(st, sender, ts, _recipient, _contentCID,
                                       _encryptedSender, _encryptedKey)
         IN Outcome(Allow(Allow(out.st, _encryptedKey, sender),
                          _encryptedSender, sender),
                    NoError, out.val)

\* variant: the counter is not incremented
sendMessage_NoIncrement(st, sender, ts, _recipient, _contentCID, _encryptedSender, senderProofOk, _encryptedKey, keyProofOk) ==
    IF _recipient = ZeroAddress THEN Revert(st, ErrInvalidRecipient)
    ELSE IF _contentCID = "" THEN Revert(st, ErrEmptyCID)
    ELSE IF ~senderProofOk THEN Revert(st, ErrSenderProof)
    ELSE IF ~keyProofOk THEN Revert(st, ErrKeyProof)
    ELSE LET out == sendMessageEffects(st, sender, ts, _recipient, _contentCID,
                                       _encryptedSender, _encryptedKey)
         IN Outcome([out.st EXCEPT !.messageCount = st.messageCount],
                    NoError, out.val)

\* variant: the sender handle is granted as soon as its proof is accepted, and
\* a rejected key proof returns an error without reverting
sendMessage_NoRollback(st, sender, ts, _recipient, _contentCID, _encryptedSender, senderProofOk, _encryptedKey, keyProofOk) ==
    IF _recipient = ZeroAddress THEN Revert(st, ErrInvalidRecipient)
    ELSE IF _contentCID = "" THEN Revert(st, ErrEmptyCID)
    ELSE IF ~senderProofOk THEN Revert(st, ErrSenderProof)
    ELSE IF ~keyProofOk
         THEN Outcome(Allow(st, _encryptedSender, _recipient), ErrKeyProof, <<>>)
    ELSE sendMessageEffects(st, sender, ts, _recipient, _contentCID,
                            _encryptedSender, _encryptedKey)

\* variant: the proofs are handed to the runtime before the arguments are
\* validated
sendMessage_ProofsFirst(st, sender, ts, _recipient, _contentCID, _encryptedSender, senderProofOk, _encryptedKey, keyProofOk) ==
    IF ~senderProofOk THEN Revert(st, ErrSenderProof)
    ELSE IF ~keyProofOk THEN Revert(st, ErrKeyProof)
    ELSE IF _recipient = ZeroAddress THEN Revert(st, ErrInvalidRecipient)
    ELSE IF _contentCID = "" THEN Revert(st, ErrEmptyCID)
    ELSE sendMessageEffects(st, sender, ts, _recipient, _contentCID,
                            _encryptedSender, _encryptedKey)

\* variant: a call that repeats the recipient, locator and signer of an
\* existing message returns that message's id and creates nothing
sendMessage_Dedup(st, sender, ts, _recipient, _contentCID, _encryptedSender, senderProofOk, _encryptedKey, keyProofOk) ==
    LET same == {k \in 1..Len(st.events) :
                    /\ st.events[k].name = "MessageSent"
                    /\ st.events[k].recipient = _recipient
                    /\ st.events[k].contentCID = _contentCID
                    /\ st.events[k].sender = sender}
    IN IF _recipient = ZeroAddress THEN Revert(st, ErrInvalidRecipient)
       ELSE IF _contentCID = "" THEN Revert(st, ErrEmptyCID)
       ELSE IF ~senderProofOk THEN Revert(st, ErrSenderProof)
       ELSE IF ~keyProofOk THEN Revert(st, ErrKeyProof)
       ELSE IF same # {}
            THEN Outcome(st, NoError,
                         <<st.events[CHOOSE k \in same : TRUE].messageId>>)
       ELSE sendMessageEffects(st, sender, ts, _recipient, _contentCID,
                               _encryptedSender, _encryptedKey)

\* variant: the zero address is accepted as a recipient
sendMessage_NoRecipientCheck(st, sender, ts, _recipient, _contentCID, _encryptedSender, senderProofOk, _encryptedKey, keyProofOk) ==
    IF _contentCID = "" THEN Revert(st, ErrEmptyCID)
    ELSE IF ~senderProofOk THEN Revert(st, ErrSenderProof)
    ELSE IF ~keyProofOk THEN Revert(st, ErrKeyProof)
    ELSE sendMessageEffects(st, sender, ts, _recipient, _contentCID,
                            _encryptedSender, _encryptedKey)

\* sendMessage: the two requires, the two FHE.fromExternal conversions (each
\* reverts when the runtime rejects the proof), then the effects.  ts is
\* block.timestamp.
sendMessage(st, sender, ts, _recipient, _contentCID, _encryptedSender, senderProofOk, _encryptedKey, keyProofOk) ==
    IF _recipient = ZeroAddress THEN Revert(st, ErrInvalidRecipient)
    ELSE IF _contentCID = "" THEN Revert(st, ErrEmptyCID)
    ELSE IF ~senderProofOk THEN Revert(st, ErrSenderProof)
    ELSE IF ~keyProofOk THEN Revert(st, ErrKeyProof)
    ELSE sendMessageEffects(st, sender, ts, _recipient, _contentCID,
                            _encryptedSender, _encryptedKey)

(***************************************************************************)
(* getMessage (view)                                                       *)
(***************************************************************************)
\* variant: the deletion flag is not examined
getMessage_NoDeletedCheck(st, sender, _messageId) ==
    LET message == st.messages[_messageId] IN
    IF message.recipient # sender THEN Revert(st, ErrNotAuthorized)
    ELSE Outcome(st, NoError,
                 <<message.encryptedSender, message.contentCID,
                   message.encryptedKey, message.timestamp>>)

\* variant: the recipient is checked before the deletion flag
getMessage_AuthFirst(st, sender, _messageId) ==
    LET message == st.messages[_messageId] IN
    IF message.recipient # sender THEN Revert(st, ErrNotAuthorized)
    ELSE IF message.isDeleted THEN Revert(st, ErrMessageDeleted)
    ELSE Outcome(st, NoError,
                 <<message.encryptedSender, message.contentCID,
                   message.encryptedKey, message.timestamp>>)

getMessage(st, sender, _messageId) ==
    LET message == st.messages[_messageId] IN
    IF message.isDeleted THEN Revert(st, ErrMessageDeleted)
    ELSE IF message.recipient # sender THEN Revert(st, ErrNotAuthorized)
    ELSE Outcome(st, NoError,
                 <<message.encryptedSender, message.contentCID,
                   message.encryptedKey, message.timestamp>>)

(***************************************************************************)
(* getMessageMetadata and the list getters (views)                         *)
(***************************************************************************)
\* variant: a deleted message is reported as an empty slot
getMessageMetadata_HidesDeleted(st, sender, _messageId) ==
    LET message == st.messages[_messageId] IN
    IF message.isDeleted
    THEN Outcome(st, NoError, <<ZeroAddress, "", 0, FALSE>>)
    ELSE Outcome(st, NoError,
                 <<message.recipient, message.contentCID, message.timestamp,
                   message.isDeleted>>)

\* variant: an id that was never used is refused
getMessageMetadata_ChecksRange(st, sender, _messageId) ==
    LET message == st.messages[_messageId] IN
    IF _messageId >= st.messageCount THEN Revert(st, "Message does not exist")
    ELSE Outcome(st, NoError,
                 <<message.recipient, message.contentCID, message.timestamp,
                   message.isDeleted>>)

getMessageMetadata(st, sender, _messageId) ==
    LET message == st.messages[_messageId] IN
    Outcome(st, NoError,
            <<message.recipient, message.contentCID, message.timestamp,
              message.isDeleted>>)

getMyReceivedMessages(st, sender) ==
    Outcome(st, NoError, <<st.receivedMessages[sender]>>)

getMySentMessages(st, sender) ==
    Outcome(st, NoError, <<st.sentMessages[sender]>>)

getReceivedMessagesOf(st, sender, _recipient) ==
    Outcome(st, NoError, <<st.receivedMessages[_recipient]>>)

\* variant: the recipient of a slot never written counts as everyone
isRecipient_OfEmptySlot(st, sender, _messageId) ==
    Outcome(st, NoError,
            <<st.messages[_messageId].recipient \in {sender, ZeroAddress}>>)

\* isRecipient
isRecipient(st, sender, _messageId) ==
    Outcome(st, NoError, <<st.messages[_messageId].recipient = sender>>)

\* getTotalMessages, and the getter of the public variable messageCount
getTotalMessages(st, sender) ==
    Outcome(st, NoError, <<st.messageCount>>)

\* the getter that the compiler generates for the public mapping messages:
\* it has no require, and returns every member of the struct
messagesGetter(st, sender, _messageId) ==
    LET message == st.messages[_messageId] IN
    Outcome(st, NoError,
            <<message.encryptedSender, message.recipient, message.contentCID,
              message.encryptedKey, message.timestamp, message.isDeleted>>)

(***************************************************************************)
(* deleteMessage                                                           *)
(***************************************************************************)
\* variant: the deleted id is also taken out of the recipient's received list
deleteMessageEffects_Unindexes(st, sender, _messageId) ==
    LET s1 == [st EXCEPT !.messages[_messageId].isDeleted = TRUE]
        s2 == [s1 EXCEPT !.events = Append(@,
                   [name |-> "MessageDeleted", messageId |-> _messageId,
                    deleter |-> sender])]
        s3 == [s2 EXCEPT !.receivedMessages[sender] =
                   SelectSeq(@, LAMBDA j : j # _messageId)]
    IN Outcome(s3, NoError, <<>>)

\* variant: the flag is set and no event is emitted
deleteMessageEffects_NoEvent(st, sender, _messageId) ==
    Outcome([st EXCEPT !.messages[_messageId].isDeleted = TRUE], NoError, <<>>)

\* the body of deleteMessage after its checks: the flag and the event
deleteMessageEffects(st, sender, _messageId) ==
    LET s1 == [st EXCEPT !.messages[_messageId].isDeleted = TRUE]
        s2 == [s1 EXCEPT !.events = Append(@,
                   [name |-> "MessageDeleted", messageId |-> _messageId,
                    deleter |-> sender])]
    IN Outcome(s2, NoError, <<>>)

\* variant: anyone may delete
deleteMessage_NoAuthCheck(st, sender, _messageId) ==
    LET message == st.messages[_messageId] IN
    IF message.isDeleted THEN Revert(st, ErrAlreadyDeleted)
    ELSE deleteMessageEffects(st, sender, _messageId)

\* variant: a deleted message may be deleted again
deleteMessage_NoDeletedCheck(st, sender, _messageId) ==
    LET message == st.messages[_messageId] IN
    IF message.recipient # sender THEN Revert(st, ErrNotAuthorized)
    ELSE deleteMessageEffects(st, sender, _messageId)

\* variant: the event is emitted but the flag is not written
deleteMessage_FlagNotSet(st, sender, _messageId) ==
    LET message == st.messages[_messageId] IN
    IF message.recipient # sender THEN Revert(st, ErrNotAuthorized)
    ELSE IF message.isDeleted THEN Revert(st, ErrAlreadyDeleted)
    ELSE Outcome([st EXCEPT !.events = Append(@,
                     [name |-> "MessageDeleted", messageId |-> _messageId,
                      deleter |-> sender])],
                 NoError, <<>>)

\* variant: the timestamp is wiped with the flag
deleteMessage_WipesRecord(st, sender, _messageId) ==
    LET message == st.messages[_messageId] IN
    IF message.recipient # sender THEN Revert(st, ErrNotAuthorized)
    ELSE IF message.isDeleted THEN Revert(st, ErrAlreadyDeleted)
    ELSE LET out == deleteMessageEffects(st, sender, _messageId)
         IN Outcome([out.st EXCEPT !.messages[_messageId].timestamp = 0],
                    NoError, <<>>)

deleteMessage(st, sender, _messageId) ==
    LET message == st.messages[_messageId] IN
    IF message.recipient # sender THEN Revert(st, ErrNotAuthorized)
    ELSE IF message.isDeleted THEN Revert(st, ErrAlreadyDeleted)
    ELSE deleteMessageEffects(st, sender, _messageId)

(***************************************************************************)
(* userDecrypt: the runtime's authorized decrypt.  The request is signed   *)
(* by userAddress; the runtime releases the cleartexts only if that        *)
(* address and the contract named with each handle hold an allowance.      *)
(***************************************************************************)
userDecrypt(st, userAddress, handleList) ==
    IF \A i \in 1..Len(handleList) :
           /\ userAddress \in st.acl[handleList[i]]
           /\ ContractAddress \in st.acl[handleList[i]]
    THEN Outcome(st, NoError,
                 [i \in 1..Len(handleList) |-> Cleartext(handleList[i])])
    ELSE Revert(st, ErrDecryptionDenied)

(***************************************************************************)
(* The browser client (WalletModal.tsx): its inputs, the content cipher,   *)
(* the content store and the hexadecimal conversions of the key and the    *)
(* sender address.                                                         *)
(***************************************************************************)
\* signer, contract and fhevmInstance are null: no wallet is connected
NoAccount == "none"
\* a key of KeyHexLen hexadecimal digits whose last digit is v: its leading
\* digits are zero
KeyOf(v) == [i \in 1..KeyHexLen |-> IF i = KeyHexLen THEN v ELSE 0]
\* what can be typed into the recipient field
RecipientInputs == {"bob", ZeroAddress, "0xnot-an-address"}
\* the prepare attempts examined: the text typed, with the key and the iv that
\* crypto.getRandomValues draws for it
PrepareSamples ==
    { [textMessage |-> "hello", aesKey |-> KeyOf(1), iv |-> "iv1"],
      [textMessage |-> "bye", aesKey |-> KeyOf(2), iv |-> "iv2"] }
\* the external step of a read that fails, if any
Faults == {"none", "signTypedData", "userDecrypt", "fetch"}
\* an asynchronous handler that is not running
Idle == [status |-> "idle"]

\* what a handler of the client reports
ClientPending == "awaiting"
ClientNotConnected == "Please connect wallet first"
ClientInvalidInput == "Invalid input"
ClientManualMode == "Pinata not configured - Manual mode"
ClientUploadFailed == "Upload failed, using manual mode"
ClientNotPrepared == "Please prepare the message first"
ClientSendFailed == "Failed to send"
ClientDecryptionDenied == "FHE decryption failed"
ClientReadFailed == "Decryption failed"

\* ethers.isAddress
isAddress(a) == a \in Users \cup {ZeroAddress}

\* BigInt('0x' + digits): the integer a string of hexadecimal digits denotes
RECURSIVE BigInt(_)
BigInt(hex) ==
    IF hex = <<>> THEN 0
    ELSE 16 * BigInt(SubSeq(hex, 1, Len(hex) - 1)) + hex[Len(hex)]

\* n.toString(16): the hexadecimal digits of n, without leading zeros
RECURSIVE toString16(_)
toString16(n) ==
    IF n < 16 THEN <<n>> ELSE toString16(n \div 16) \o <<n % 16>>

\* String.prototype.padStart(targetLength, '0')
RECURSIVE padStart(_, _)
padStart(hex, targetLength) ==
    IF Len(hex) >= targetLength THEN hex
    ELSE padStart(<<0>> \o hex, targetLength)

\* ethers.getAddress('0x' + senderHex): throws unless the digits have the
\* length of an address, and returns the address they denote (the zero
\* address stands for every address that is nobody's)
getAddress(senderHex) ==
    LET found == {a \in Users : AddressAsInt(a) = BigInt(senderHex)}
    IN [ok |-> Len(senderHex) = AddrHexLen,
        address |-> IF found = {} THEN ZeroAddress ELSE CHOOSE a \in found : TRUE]

(***************************************************************************)
(* Bytes and their hexadecimal form: the key and the sender address on     *)
(* their way through the runtime's integers, the ciphertext and the iv on  *)
(* their way through the stored document.                                  *)
(***************************************************************************)
\* the byte values examined: zero, one hexadecimal digit, two digits
ByteSamples == {0, 1, 15, 16, 255}

\* the sequences of n bytes drawn from a set
BytesOf(n, from) == [1..n -> from]

\* Array.from(bytes).map(b => b.toString(16).padStart(2, '0')).join('')
RECURSIVE bytesToHex(_)
bytesToHex(bytes) ==
    IF bytes = <<>> THEN <<>>
    ELSE padStart(toString16(Head(bytes)), 2) \o bytesToHex(Tail(bytes))

\* hex.match(/.{1,2}/g)!.map(byte => parseInt(byte, 16)): the digits are
\* taken two by two from the left, and a last single digit is a byte
RECURSIVE hexToBytes(_)
hexToBytes(hex) ==
    IF hex = <<>> THEN <<>>
    ELSE IF Len(hex) = 1 THEN <<hex[1]>>
    ELSE <<16 * hex[1] + hex[2]>> \o hexToBytes(SubSeq(hex, 3, Len(hex)))

\* keyInput.add256(BigInt(preparedKey)), preparedKey being the hexadecimal
\* form of the key: the integer of 256 bits the runtime is given
add256(key) == BigInt(bytesToHex(key)) % (16 ^ KeyHexLen)

\* senderInput.addAddress(userAddress): the integer of 160 bits the runtime
\* is given
addAddress(address) == BigInt(bytesToHex(address)) % (16 ^ AddrHexLen)

\* variant: the hexadecimal form of the key is not padded
decryptedKeyToBytes_NoPadding(decryptedKey) ==
    hexToBytes(toString16(decryptedKey))

\* the key from the integer the runtime returns: toString(16), padStart(64),
\* and the bytes of the hexadecimal digits
decryptedKeyToBytes(decryptedKey) ==
    hexToBytes(padStart(toString16(decryptedKey), KeyHexLen))

\* the sender from the integer the runtime returns: toString(16),
\* padStart(40) and ethers.getAddress, which throws unless it is given the
\* digits of 20 bytes
decryptedSenderToAddress(decryptedSender) ==
    LET senderHex == padStart(toString16(decryptedSender), AddrHexLen)
    IN [ok |-> Len(senderHex) = AddrHexLen, address |-> hexToBytes(senderHex)]

\* the sum of bytes, as a byte
RECURSIVE Mix(_)
Mix(bytes) == IF bytes = <<>> THEN 0 ELSE (Head(bytes) + Mix(Tail(bytes))) % 256

\* the chaining of a block cipher whose blocks are single bytes: each block
\* is combined with the ciphertext of the block before it (prev, at first
\* the iv) and with the key.  It stands for AES-CBC, which the browser
\* provides
RECURSIVE CbcEncrypt(_, _, _)
CbcEncrypt(k, prev, blocks) ==
    IF blocks = <<>> THEN <<>>
    ELSE LET c == (Head(blocks) + prev + k) % 256
         IN <<c>> \o CbcEncrypt(k, c, Tail(blocks))

RECURSIVE CbcDecrypt(_, _, _)
CbcDecrypt(k, prev, blocks) ==
    IF blocks = <<>> THEN <<>>
    ELSE <<(Head(blocks) + 512 - prev - k) % 256>>
             \o CbcDecrypt(k, Head(blocks), Tail(blocks))

\* crypto.subtle.encrypt({ name: 'AES-CBC', iv }, cryptoKey, contentBytes):
\* the content is padded to whole blocks (here by one byte 1) and chained
subtleEncrypt(iv, key, contentBytes) ==
    CbcEncrypt(Mix(key), Mix(iv), contentBytes \o <<1>>)

\* crypto.subtle.decrypt: throws when the padding is not found
subtleDecrypt(iv, key, encryptedBytes) ==
    LET padded == CbcDecrypt(Mix(key), Mix(iv), encryptedBytes)
    IN IF padded # <<>> /\ padded[Len(padded)] = 1
       THEN [ok |-> TRUE, plain |-> SubSeq(padded, 1, Len(padded) - 1)]
       ELSE [ok |-> FALSE, plain |-> <<>>]

\* variant of bytesToHex: a byte below 16 is written as one digit
RECURSIVE bytesToHex_Unpadded(_)
bytesToHex_Unpadded(bytes) ==
    IF bytes = <<>> THEN <<>>
    ELSE toString16(Head(bytes)) \o bytesToHex_Unpadded(Tail(bytes))

\* variant: the ciphertext is written with bytesToHex_Unpadded
encryptFileWithAESHex_NoBytePadding(contentBytes, aesKey, iv) ==
    LET encryptedArray == subtleEncrypt(iv, aesKey, contentBytes)
    IN [encrypted |-> bytesToHex_Unpadded(encryptedArray), key |-> aesKey,
        iv |-> bytesToHex(iv)]

\* encryptFileWithAES on bytes, with the key and the iv that getRandomValues
\* drew: the ciphertext and the iv are returned in hexadecimal
encryptFileWithAESHex(contentBytes, aesKey, iv) ==
    LET encryptedArray == subtleEncrypt(iv, aesKey, contentBytes)
    IN [encrypted |-> bytesToHex(encryptedArray), key |-> aesKey,
        iv |-> bytesToHex(iv)]

\* decryptFileContent on bytes: the ciphertext is read from its hexadecimal
\* form; match returns null on an empty string, and the handler throws
decryptFileContentHex(encryptedHex, key, iv) ==
    IF encryptedHex = <<>> THEN [ok |-> FALSE, plain |-> <<>>]
    ELSE subtleDecrypt(iv, key, hexToBytes(encryptedHex))

\* createEncryptedInput(...).add256(v) / .addAddress(v), then encrypt(): the
\* handle under which the runtime holds the integer v
EncryptInput(v) == CHOOSE h \in Handles : Cleartext(h) = v

\* encryptFileWithAES, with the key and the iv that getRandomValues drew: the
\* ciphertext is opaque, and is written here as what it was made from
encryptFileWithAES(content, aesKey, iv) ==
    [encrypted |-> [plain |-> content, key |-> aesKey, iv |-> iv],
     key |-> aesKey, iv |-> iv]

\* decryptFileContent: AES-CBC gives the content back under the key and iv
\* the ciphertext was made with, and fails otherwise
decryptFileContent(encrypted, key, iv) ==
    IF encrypted.key = key /\ encrypted.iv = iv
    THEN [ok |-> TRUE, plain |-> encrypted.plain]
    ELSE [ok |-> FALSE, plain |-> ""]

\* result.IpfsHash of uploadToPinata: the locator the store derives from the
\* document it is given, field by field
IpfsHash(encryptedData) ==
    "Qm" \o ToString(<<encryptedData.content.plain, encryptedData.content.key,
                       encryptedData.content.iv, encryptedData.iv>>)

\* the documents the gateway serves under a locator
Pinned(fs, contentCID) == {doc \in fs : IpfsHash(doc) = contentCID}

\* the React state after mounting; hasPinataConfig is fixed by the build
InitialClient(hasPinataConfig) ==
    [account |-> NoAccount, recipientAddress |-> "", textMessage |-> "",
     isPrepared |-> FALSE, preparedCid |-> "", preparedKey |-> <<>>,
     preparing |-> FALSE, sending |-> FALSE,
     hasPinataConfig |-> hasPinataConfig, upload |-> Idle, tx |-> Idle]

\* the ledger, the content store and the client, as a handler finds them
World == [st |-> Storage, ipfs |-> ipfs, client |-> client]

\* what a handler leaves, what it reports and what it hands over
ClientOutcome(w, err, val) == [w |-> w, err |-> err, val |-> val]

(***************************************************************************)
(* handlePrepareMessage, up to its await of uploadToPinata, and from there *)
(***************************************************************************)
\* variant: the prepared flag is raised before the upload is attempted
handlePrepareMessage_PreparedEarly(w, aesKey, iv) ==
    LET c == w.client IN
    IF c.account = NoAccount THEN ClientOutcome(w, ClientNotConnected, <<>>)
    ELSE IF c.textMessage = "" THEN ClientOutcome(w, ClientInvalidInput, <<>>)
    ELSE IF ~isAddress(c.recipientAddress)
         THEN ClientOutcome(w, ClientInvalidInput, <<>>)
    ELSE LET enc == encryptFileWithAES(c.textMessage, aesKey, iv)
             encryptedData == [iv |-> enc.iv, content |-> enc.encrypted]
             keyHex == enc.key
         IN IF ~c.hasPinataConfig
            THEN ClientOutcome(
                     [w EXCEPT !.client.isPrepared = TRUE,
                               !.client.preparedCid = IpfsHash(encryptedData),
                               !.client.preparedKey = keyHex],
                     ClientManualMode, <<>>)
            ELSE ClientOutcome(
                     [w EXCEPT !.client.isPrepared = TRUE,
                               !.client.preparedCid = IpfsHash(encryptedData),
                               !.client.preparedKey = keyHex,
                               !.client.preparing = TRUE,
                               !.client.upload =
                                   [status |-> "uploading",
                                    doc |-> encryptedData, keyHex |-> keyHex]],
                     ClientPending, <<>>)

\* variant: the message is also submitted to the ledger while preparing
handlePrepareMessage_TouchesLedger(w, aesKey, iv) ==
    LET c == w.client IN
    IF c.account = NoAccount THEN ClientOutcome(w, ClientNotConnected, <<>>)
    ELSE IF c.textMessage = "" THEN ClientOutcome(w, ClientInvalidInput, <<>>)
    ELSE IF ~isAddress(c.recipientAddress)
         THEN ClientOutcome(w, ClientInvalidInput, <<>>)
    ELSE LET enc == encryptFileWithAES(c.textMessage, aesKey, iv)
             encryptedData == [iv |-> enc.iv, content |-> enc.encrypted]
             keyHex == enc.key
             granted == Allow(w.st, EncryptInput(BigInt(keyHex)),
                              c.recipientAddress)
         IN IF ~c.hasPinataConfig
            THEN ClientOutcome([w EXCEPT !.client.isPrepared = FALSE,
                                         !.st = granted],
                               ClientManualMode, <<>>)
            ELSE ClientOutcome(
                     [w EXCEPT !.client.isPrepared = FALSE,
                               !.st = granted,
                               !.client.preparing = TRUE,
                               !.client.upload =
                                   [status |-> "uploading",
                                    doc |-> encryptedData, keyHex |-> keyHex]],
                     ClientPending, <<>>)

\* the handler from the click to the upload request: the connection check,
\* the validation of the inputs, the encryption under a fresh key and iv, and
\* the return in manual mode.  The message is a text message.
handlePrepareMessage(w, aesKey, iv) ==
    LET c == w.client IN
    IF c.account = NoAccount THEN ClientOutcome(w, ClientNotConnected, <<>>)
    ELSE IF c.textMessage = "" THEN ClientOutcome(w, ClientInvalidInput, <<>>)
    ELSE IF ~isAddress(c.recipientAddress)
         THEN ClientOutcome(w, ClientInvalidInput, <<>>)
    ELSE LET enc == encryptFileWithAES(c.textMessage, aesKey, iv)
             encryptedData == [iv |-> enc.iv, content |-> enc.encrypted]
             keyHex == enc.key
         IN IF ~c.hasPinataConfig
            THEN ClientOutcome([w EXCEPT !.client.isPrepared = FALSE],
                               ClientManualMode, <<>>)
            ELSE ClientOutcome(
                     [w EXCEPT !.client.isPrepared = FALSE,
                               !.client.preparing = TRUE,
                               !.client.upload =
                                   [status |-> "uploading",
                                    doc |-> encryptedData, keyHex |-> keyHex]],
                     ClientPending, <<>>)

\* the handler from the answer of uploadToPinata to its end: the prepared
\* locator, key and flag are saved when the upload succeeded
handlePrepareMessageUploaded(w, uploadOk) ==
    LET job == w.client.upload IN
    IF uploadOk
    THEN LET ipfsCid == IpfsHash(job.doc)
         IN ClientOutcome(
                [w EXCEPT !.ipfs = @ \cup {job.doc},
                          !.client.preparedCid = ipfsCid,
                          !.client.preparedKey = job.keyHex,
                          !.client.isPrepared = TRUE,
                          !.client.preparing = FALSE,
                          !.client.upload = Idle],
                NoError, <<ipfsCid>>)
    ELSE ClientOutcome([w EXCEPT !.client.preparing = FALSE,
                                 !.client.upload = Idle],
                       ClientUploadFailed, <<>>)

(***************************************************************************)
(* handleConfidentialSend, up to the submission of the transaction, and    *)
(* from the mining of the transaction                                      *)
(***************************************************************************)
\* variant: the prepared key is encrypted into the sender field as well
handleConfidentialSend_KeyAsSender(w, submitOk) ==
    LET c == w.client IN
    IF c.account = NoAccount \/ ~c.isPrepared
    THEN ClientOutcome(w, ClientNotPrepared, <<>>)
    ELSE IF ~isAddress(c.recipientAddress) \/ ~submitOk
         THEN ClientOutcome(w, ClientSendFailed, <<>>)
    ELSE LET userAddress == c.account
             encryptedSender == EncryptInput(BigInt(c.preparedKey))
             encryptedKey == EncryptInput(BigInt(c.preparedKey))
         IN ClientOutcome(
                [w EXCEPT !.client.sending = TRUE,
                          !.client.tx =
                              [status |-> "pending", sender |-> userAddress,
                               recipient |-> c.recipientAddress,
                               contentCID |-> c.preparedCid,
                               encryptedSender |-> encryptedSender,
                               encryptedKey |-> encryptedKey]],
                ClientPending, <<>>)

\* variant: the key field is filled with the signer's address
handleConfidentialSend_WrongKey(w, submitOk) ==
    LET c == w.client IN
    IF c.account = NoAccount \/ ~c.isPrepared
    THEN ClientOutcome(w, ClientNotPrepared, <<>>)
    ELSE IF ~isAddress(c.recipientAddress) \/ ~submitOk
         THEN ClientOutcome(w, ClientSendFailed, <<>>)
    ELSE LET userAddress == c.account
             encryptedSender == EncryptInput(AddressAsInt(userAddress))
         IN ClientOutcome(
                [w EXCEPT !.client.sending = TRUE,
                          !.client.tx =
                              [status |-> "pending", sender |-> userAddress,
                               recipient |-> c.recipientAddress,
                               contentCID |-> c.preparedCid,
                               encryptedSender |-> encryptedSender,
                               encryptedKey |-> encryptedSender]],
                ClientPending, <<>>)

\* the handler from the click to contract.sendMessage: the guard, the two
\* encrypted inputs made for the connected account, and the transaction.
\* submitOk: the runtime produced the inputs and the wallet signed and
\* broadcast the transaction.
handleConfidentialSend(w, submitOk) ==
    LET c == w.client IN
    IF c.account = NoAccount \/ ~c.isPrepared
    THEN ClientOutcome(w, ClientNotPrepared, <<>>)
    ELSE IF ~isAddress(c.recipientAddress) \/ ~submitOk
         THEN ClientOutcome(w, ClientSendFailed, <<>>)
    ELSE LET userAddress == c.account
             encryptedSender == EncryptInput(AddressAsInt(userAddress))
             encryptedKey == EncryptInput(BigInt(c.preparedKey))
         IN ClientOutcome(
                [w EXCEPT !.client.sending = TRUE,
                          !.client.tx =
                              [status |-> "pending", sender |-> userAddress,
                               recipient |-> c.recipientAddress,
                               contentCID |-> c.preparedCid,
                               encryptedSender |-> encryptedSender,
                               encryptedKey |-> encryptedKey]],
                ClientPending, <<>>)

\* variant: the prepared output is kept after the confirmation
handleConfidentialSendMined_KeepsPrepared(w, ts, confirmOk) ==
    LET tx == w.client.tx
        out == sendMessage(w.st, tx.sender, ts, tx.recipient, tx.contentCID,
                           tx.encryptedSender, TRUE, tx.encryptedKey, TRUE)
    IN IF out.err = NoError /\ confirmOk
       THEN ClientOutcome(
                [w EXCEPT !.st = out.st,
                          !.client.textMessage = "",
                          !.client.recipientAddress = "",
                          !.client.sending = FALSE,
                          !.client.tx = Idle],
                NoError, out.val)
       ELSE ClientOutcome([w EXCEPT !.st = out.st,
                                    !.client.sending = FALSE,
                                    !.client.tx = Idle],
                          ClientSendFailed, out.val)

\* the transaction is executed by the chain at timestamp ts and tx.wait()
\* returns (confirmOk) or throws: on confirmation the form and the prepared
\* output are reset, otherwise they are left as they are
handleConfidentialSendMined(w, ts, confirmOk) ==
    LET tx == w.client.tx
        out == sendMessage(w.st, tx.sender, ts, tx.recipient, tx.contentCID,
                           tx.encryptedSender, TRUE, tx.encryptedKey, TRUE)
    IN IF out.err = NoError /\ confirmOk
       THEN ClientOutcome(
                [w EXCEPT !.st = out.st,
                          !.client.textMessage = "",
                          !.client.recipientAddress = "",
                          !.client.isPrepared = FALSE,
                          !.client.preparedCid = "",
                          !.client.preparedKey = <<>>,
                          !.client.sending = FALSE,
                          !.client.tx = Idle],
                NoError, out.val)
       ELSE ClientOutcome([w EXCEPT !.st = out.st,
                                    !.client.sending = FALSE,
                                    !.client.tx = Idle],
                          ClientSendFailed, out.val)

(***************************************************************************)
(* handleDecryptMessage                                                    *)
(***************************************************************************)
\* what the handler hands over: the steps it took, and the sender, the key
\* and the content it showed or delivered
ReadResult(steps, senderAddress, aesKeyHex, content) ==
    <<steps, senderAddress, aesKeyHex, content>>

\* the steps of the handler, in the order of the code
StepsTo(last) ==
    LET all == <<"getMessage", "signTypedData", "userDecrypt", "fetch",
                 "decryptFileContent", "download">>
    IN SubSeq(all, 1, CHOOSE k \in 1..Len(all) : all[k] = last)

\* the handler from the download of the document: the gateway, the content
\* cipher, the delivery
handleDecryptMessageContent(w, contentCID, senderAddress, aesKeyHex, fault) ==
    LET docs == Pinned(w.ipfs, contentCID) IN
    IF fault = "fetch" \/ docs = {}
    THEN ClientOutcome(w, ClientReadFailed,
             ReadResult(StepsTo("fetch"), senderAddress, aesKeyHex, ""))
    ELSE
    LET encryptedData == CHOOSE doc \in docs : TRUE
        decrypted == decryptFileContent(encryptedData.content, aesKeyHex,
                                        encryptedData.iv)
    IN
    IF ~decrypted.ok
    THEN ClientOutcome(w, ClientReadFailed,
             ReadResult(StepsTo("decryptFileContent"), senderAddress,
                        aesKeyHex, ""))
    ELSE ClientOutcome(w, NoError,
             ReadResult(StepsTo("download"), senderAddress, aesKeyHex,
                        decrypted.plain))

\* variant: a refused decryption is reported, and the handler goes on to the
\* content store with nothing in hand
handleDecryptMessage_GoesOn(w, messageId, fault) ==
    LET c == w.client
        message == getMessage(w.st, c.account, messageId)
    IN
    IF c.account = NoAccount
    THEN ClientOutcome(w, ClientNotConnected, ReadResult(<<>>, "", <<>>, ""))
    ELSE IF message.err # NoError
    THEN ClientOutcome(w, ClientReadFailed,
                       ReadResult(StepsTo("getMessage"), "", <<>>, ""))
    ELSE
    LET encryptedSenderHandle == message.val[1]
        contentCID == message.val[2]
        encryptedKeyHandle == message.val[3]
        results == userDecrypt(w.st, c.account,
                               <<encryptedSenderHandle, encryptedKeyHandle>>)
        senderAddress ==
            getAddress(padStart(toString16(results.val[1]), AddrHexLen))
        aesKeyHex == padStart(toString16(results.val[2]), KeyHexLen)
    IN
    IF fault \in {"signTypedData", "userDecrypt"} \/ results.err # NoError
    THEN ClientOutcome(w, ClientDecryptionDenied,
             ReadResult(StepsTo("fetch"), "", <<>>, ""))
    ELSE IF ~senderAddress.ok
    THEN ClientOutcome(w, ClientDecryptionDenied,
             ReadResult(StepsTo("userDecrypt"), "", <<>>, ""))
    ELSE handleDecryptMessageContent(w, contentCID, senderAddress.address,
                                     aesKeyHex, fault)

\* variant: the recovered key is not padded to its full length
handleDecryptMessage_NoPadding(w, messageId, fault) ==
    LET c == w.client
        message == getMessage(w.st, c.account, messageId)
    IN
    IF c.account = NoAccount
    THEN ClientOutcome(w, ClientNotConnected, ReadResult(<<>>, "", <<>>, ""))
    ELSE IF message.err # NoError
    THEN ClientOutcome(w, ClientReadFailed,
                       ReadResult(StepsTo("getMessage"), "", <<>>, ""))
    ELSE
    LET encryptedSenderHandle == message.val[1]
        contentCID == message.val[2]
        encryptedKeyHandle == message.val[3]
        results == userDecrypt(w.st, c.account,
                               <<encryptedSenderHandle, encryptedKeyHandle>>)
        senderAddress ==
            getAddress(padStart(toString16(results.val[1]), AddrHexLen))
        aesKeyHex == toString16(results.val[2])
    IN
    IF fault = "signTypedData"
    THEN ClientOutcome(w, ClientDecryptionDenied,
             ReadResult(StepsTo("signTypedData"), "", <<>>, ""))
    ELSE IF fault = "userDecrypt" \/ results.err # NoError \/ ~senderAddress.ok
    THEN ClientOutcome(w, ClientDecryptionDenied,
             ReadResult(StepsTo("userDecrypt"), "", <<>>, ""))
    ELSE handleDecryptMessageContent(w, contentCID, senderAddress.address,
                                     aesKeyHex, fault)

\* variant: the permission is signed although getMessage reverted
handleDecryptMessage_SignsAnyway(w, messageId, fault) ==
    LET c == w.client
        message == getMessage(w.st, c.account, messageId)
    IN
    IF c.account = NoAccount
    THEN ClientOutcome(w, ClientNotConnected, ReadResult(<<>>, "", <<>>, ""))
    ELSE IF message.err # NoError
    THEN ClientOutcome(w, ClientReadFailed,
                       ReadResult(StepsTo("signTypedData"), "", <<>>, ""))
    ELSE
    LET encryptedSenderHandle == message.val[1]
        contentCID == message.val[2]
        encryptedKeyHandle == message.val[3]
        results == userDecrypt(w.st, c.account,
                               <<encryptedSenderHandle, encryptedKeyHandle>>)
        senderAddress ==
            getAddress(padStart(toString16(results.val[1]), AddrHexLen))
        aesKeyHex == padStart(toString16(results.val[2]), KeyHexLen)
    IN
    IF fault = "signTypedData"
    THEN ClientOutcome(w, ClientDecryptionDenied,
             ReadResult(StepsTo("signTypedData"), "", <<>>, ""))
    ELSE IF fault = "userDecrypt" \/ results.err # NoError \/ ~senderAddress.ok
    THEN ClientOutcome(w, ClientDecryptionDenied,
             ReadResult(StepsTo("userDecrypt"), "", <<>>, ""))
    ELSE handleDecryptMessageContent(w, contentCID, senderAddress.address,
                                     aesKeyHex, fault)

\* the whole handler.  fault names the external step that fails on this
\* attempt, if any: "signTypedData" (the user refuses to sign the EIP-712
\* permission), "userDecrypt" (the relayer is unreachable or rejects the
\* signature or its window), "fetch" (the gateway).  A failure of getMessage, of the gateway or
\* of the content cipher reaches the outer catch; a failure between
\* signer.getAddress() and the conversion of the cleartexts reaches the inner
\* catch, which reports it and returns.
handleDecryptMessage(w, messageId, fault) ==
    LET c == w.client
        message == getMessage(w.st, c.account, messageId)
    IN
    IF c.account = NoAccount
    THEN ClientOutcome(w, ClientNotConnected, ReadResult(<<>>, "", <<>>, ""))
    ELSE IF message.err # NoError
    THEN ClientOutcome(w, ClientReadFailed,
                       ReadResult(StepsTo("getMessage"), "", <<>>, ""))
    ELSE
    LET encryptedSenderHandle == message.val[1]
        contentCID == message.val[2]
        encryptedKeyHandle == message.val[3]
        results == userDecrypt(w.st, c.account,
                               <<encryptedSenderHandle, encryptedKeyHandle>>)
        senderAddress ==
            getAddress(padStart(toString16(results.val[1]), AddrHexLen))
        aesKeyHex == padStart(toString16(results.val[2]), KeyHexLen)
    IN
    IF fault = "signTypedData"
    THEN ClientOutcome(w, ClientDecryptionDenied,
             ReadResult(StepsTo("signTypedData"), "", <<>>, ""))
    ELSE IF fault = "userDecrypt" \/ results.err # NoError \/ ~senderAddress.ok
    THEN ClientOutcome(w, ClientDecryptionDenied,
             ReadResult(StepsTo("userDecrypt"), "", <<>>, ""))
    ELSE handleDecryptMessageContent(w, contentCID, senderAddress.address,
                                     aesKeyHex, fault)

(***************************************************************************)
(* handleDecryptMessage, await by await: each invocation keeps its own     *)
(* locals (the handles, the key pair, the permission, the signature, the   *)
(* recovered sender and key) from one await to the next.                   *)
(***************************************************************************)
\* the invocations of handleDecryptMessage that can be in flight together
ReadSlots == {1, 2}
\* the invocations started in one behaviour
MaxReads == 3
\* the days the clock runs
MaxDays == 11
\* the last day on which an invocation is started
MaxStartDay == 1
\* const durationDays = '10'
DurationDays == 10

\* a slot in which no invocation runs
NoRead == [pc |-> "idle"]

\* fhevmInstance.generateKeypair(): the n-th key pair the runtime makes; the
\* runtime never makes the same pair twice
generateKeypair(n) == [publicKey |-> <<"pub", n>>, privateKey |-> <<"priv", n>>]

\* privateKey is the private half of publicKey
Pairs(privateKey, publicKey) == privateKey[2] = publicKey[2]

\* fhevmInstance.createEIP712: the typed message to sign
createEIP712(publicKey, contractAddresses, startTimestamp, durationDays) ==
    [message |-> [publicKey |-> publicKey,
                  contractAddresses |-> contractAddresses,
                  startTimestamp |-> startTimestamp,
                  durationDays |-> durationDays]]

\* signer.signTypedData: the signature of account over message
signTypedData(account, message) == [signer |-> account, message |-> message]

\* the relayer's clock, at, is within the signed window; at its last
\* instant the relayer may answer either way
WindowOpen(startTimestamp, durationDays, at) ==
    startTimestamp <= at /\ at <= startTimestamp + durationDays

\* what the relayer checks of a userDecrypt request before it looks at the
\* allowances: the signature is userAddress's over the permission that the
\* request's public key, contracts and window make up, the private key is
\* that public key's, the handles are of the contracts named, and the window
\* is open
Authorizes(request, at) ==
    /\ request.signature.signer = request.userAddress
    /\ request.signature.message =
           createEIP712(request.publicKey, request.contractAddresses,
                        request.startTimestamp, request.durationDays).message
    /\ Pairs(request.privateKey, request.publicKey)
    /\ \A k \in 1..Len(request.handleContractPairs) :
           \E j \in 1..Len(request.contractAddresses) :
               request.handleContractPairs[k].contractAddress =
                   request.contractAddresses[j]
    /\ WindowOpen(request.startTimestamp, request.durationDays, at)

\* fhevmInstance.userDecrypt with all its arguments, answered by the relayer
\* at time at
userDecryptRequest(st, request, at) ==
    IF Authorizes(request, at)
    THEN userDecrypt(st, request.userAddress,
             [k \in 1..Len(request.handleContractPairs) |->
                  request.handleContractPairs[k].handle])
    ELSE Revert(st, ErrDecryptionDenied)

\* an invocation that has ended, with what it reports and hands over
ReadDone(r, err, val) ==
    [pc |-> "done", messageId |-> r.messageId, err |-> err, val |-> val]

\* variant: the key pair is made once and kept for every read
handleDecryptMessageBegin_CachedKeypair(w, made, at, messageId) ==
    LET c == w.client
        r == [messageId |-> messageId]
        message == getMessage(w.st, c.account, messageId)
    IN
    IF c.account = NoAccount
    THEN ReadDone(r, ClientNotConnected, ReadResult(<<>>, "", <<>>, ""))
    ELSE IF message.err # NoError
    THEN ReadDone(r, ClientReadFailed,
                  ReadResult(StepsTo("getMessage"), "", <<>>, ""))
    ELSE
    LET keypair == generateKeypair(1)
        startTimestamp == at
        contractAddresses == <<ContractAddress>>
    IN [pc |-> "signTypedData", messageId |-> messageId,
        contentCID |-> message.val[2],
        userAddress |-> c.account,
        keypair |-> keypair,
        handleContractPairs |->
            <<[handle |-> message.val[1], contractAddress |-> ContractAddress],
              [handle |-> message.val[3], contractAddress |-> ContractAddress]>>,
        startTimestamp |-> startTimestamp,
        durationDays |-> DurationDays,
        contractAddresses |-> contractAddresses,
        eip712 |-> createEIP712(keypair.publicKey, contractAddresses,
                                startTimestamp, DurationDays)]

\* variant: the permission is asked for one day
handleDecryptMessageBegin_OneDay(w, made, at, messageId) ==
    LET c == w.client
        r == [messageId |-> messageId]
        message == getMessage(w.st, c.account, messageId)
    IN
    IF c.account = NoAccount
    THEN ReadDone(r, ClientNotConnected, ReadResult(<<>>, "", <<>>, ""))
    ELSE IF message.err # NoError
    THEN ReadDone(r, ClientReadFailed,
                  ReadResult(StepsTo("getMessage"), "", <<>>, ""))
    ELSE
    LET keypair == generateKeypair(made + 1)
        startTimestamp == at
        contractAddresses == <<ContractAddress>>
    IN [pc |-> "signTypedData", messageId |-> messageId,
        contentCID |-> message.val[2],
        userAddress |-> c.account,
        keypair |-> keypair,
        handleContractPairs |->
            <<[handle |-> message.val[1], contractAddress |-> ContractAddress],
              [handle |-> message.val[3], contractAddress |-> ContractAddress]>>,
        startTimestamp |-> startTimestamp,
        durationDays |-> 1,
        contractAddresses |-> contractAddresses,
        eip712 |-> createEIP712(keypair.publicKey, contractAddresses,
                                startTimestamp, 1)]

\* from the click to the request for a signature: getMessage, the key pair
\* (the one after the made pairs made so far), the handle-contract pairs, the
\* window that starts at the time at, the typed message
handleDecryptMessageBegin(w, made, at, messageId) ==
    LET c == w.client
        r == [messageId |-> messageId]
        message == getMessage(w.st, c.account, messageId)
    IN
    IF c.account = NoAccount
    THEN ReadDone(r, ClientNotConnected, ReadResult(<<>>, "", <<>>, ""))
    ELSE IF message.err # NoError
    THEN ReadDone(r, ClientReadFailed,
                  ReadResult(StepsTo("getMessage"), "", <<>>, ""))
    ELSE
    LET keypair == generateKeypair(made + 1)
        startTimestamp == at
        contractAddresses == <<ContractAddress>>
    IN [pc |-> "signTypedData", messageId |-> messageId,
        contentCID |-> message.val[2],
        userAddress |-> c.account,
        keypair |-> keypair,
        handleContractPairs |->
            <<[handle |-> message.val[1], contractAddress |-> ContractAddress],
              [handle |-> message.val[3], contractAddress |-> ContractAddress]>>,
        startTimestamp |-> startTimestamp,
        durationDays |-> DurationDays,
        contractAddresses |-> contractAddresses,
        eip712 |-> createEIP712(keypair.publicKey, contractAddresses,
                                startTimestamp, DurationDays)]

\* variant: the window sent to the relayer starts a day after the one signed
handleDecryptMessageSigned_OtherWindow(r, signOk) ==
    IF ~signOk
    THEN ReadDone(r, ClientDecryptionDenied,
                  ReadResult(StepsTo("signTypedData"), "", <<>>, ""))
    ELSE [pc |-> "userDecrypt", messageId |-> r.messageId,
          contentCID |-> r.contentCID,
          keypair |-> r.keypair,
          request |->
              [handleContractPairs |-> r.handleContractPairs,
               privateKey |-> r.keypair.privateKey,
               publicKey |-> r.keypair.publicKey,
               signature |-> signTypedData(r.userAddress, r.eip712.message),
               contractAddresses |-> r.contractAddresses,
               userAddress |-> r.userAddress,
               startTimestamp |-> r.startTimestamp + 1,
               durationDays |-> r.durationDays]]

\* the wallet answers the request for a signature (signOk) or the user
\* rejects it; with the signature the userDecrypt request goes to the relayer
handleDecryptMessageSigned(r, signOk) ==
    IF ~signOk
    THEN ReadDone(r, ClientDecryptionDenied,
                  ReadResult(StepsTo("signTypedData"), "", <<>>, ""))
    ELSE [pc |-> "userDecrypt", messageId |-> r.messageId,
          contentCID |-> r.contentCID,
          keypair |-> r.keypair,
          request |->
              [handleContractPairs |-> r.handleContractPairs,
               privateKey |-> r.keypair.privateKey,
               publicKey |-> r.keypair.publicKey,
               signature |-> signTypedData(r.userAddress, r.eip712.message),
               contractAddresses |-> r.contractAddresses,
               userAddress |-> r.userAddress,
               startTimestamp |-> r.startTimestamp,
               durationDays |-> r.durationDays]]

\* the relayer answers at time at, or is not reached (~relayerOk); the
\* cleartexts are converted and the document is asked of the gateway
handleDecryptMessageDecrypted(w, r, at, relayerOk) ==
    LET results == userDecryptRequest(w.st, r.request, at)
        senderAddress ==
            getAddress(padStart(toString16(results.val[1]), AddrHexLen))
        aesKeyHex == padStart(toString16(results.val[2]), KeyHexLen)
    IN
    IF ~relayerOk \/ results.err # NoError \/ ~senderAddress.ok
    THEN ReadDone(r, ClientDecryptionDenied,
                  ReadResult(StepsTo("userDecrypt"), "", <<>>, ""))
    ELSE [pc |-> "fetch", messageId |-> r.messageId,
          contentCID |-> r.contentCID,
          keypair |-> r.keypair,
          request |-> r.request,
          senderAddress |-> senderAddress.address,
          aesKeyHex |-> aesKeyHex]

\* the gateway answers (fetchOk) or fails; the document is decrypted and
\* handed to the user
handleDecryptMessageFetched(w, r, fetchOk) ==
    LET out == handleDecryptMessageContent(w, r.contentCID, r.senderAddress,
                   r.aesKeyHex, IF fetchOk THEN "none" ELSE "fetch")
    IN [pc |-> "done", messageId |-> r.messageId, keypair |-> r.keypair,
        request |-> r.request, err |-> out.err, val |-> out.val]

(***************************************************************************)
(* The command-line task confidential-transmission:send (part_001)         *)
(***************************************************************************)
\* signers[0], the account the task signs with
TaskSigner == "alice"
\* no run of the task has started
NoTask == [pc |-> "idle"]
\* the --key arguments examined: with or without the prefix, or with a prefix
\* that startsWith("0x") does not recognise, and with the right number of
\* digits, one fewer or one more
TaskKeys ==
    [prefix : {"", "0x", "0X"},
     digits : {KeyOf(1), Tail(KeyOf(2)), <<0>> \o KeyOf(2)}]
\* the --cid arguments examined
TaskCids == {"QmTask", ""}

\* what the task throws
TaskInvalidRecipient == "Invalid recipient address"
TaskInvalidKey == "Invalid key length"
TaskTransactionFailed == "transaction reverted"

\* the number of characters of key as it was typed
KeyLength(key) == (IF key.prefix = "" THEN 0 ELSE 2) + Len(key.digits)

\* a run of the task that has ended: what it threw or printed, and the calls
\* it made to the runtime and to the ledger
TaskDone(t, err, val) ==
    [pc |-> "done", err |-> err, val |-> val, steps |-> t.steps]

\* variant: the key is checked after the sender has been encrypted
sendTask_ValidatesLate(recipient, cid, key) ==
    IF ~isAddress(recipient) THEN TaskDone([steps |-> <<>>], TaskInvalidRecipient, <<>>)
    ELSE LET keyHexLength == IF key.prefix = "0x" THEN KeyLength(key)
                             ELSE 2 + KeyLength(key)
         IN IF keyHexLength # 2 + KeyHexLen
            THEN TaskDone([steps |-> <<"initializeCLIApi", "encryptSender">>],
                          TaskInvalidKey, <<>>)
            ELSE [pc |-> "pending",
                  steps |-> <<"initializeCLIApi", "encryptSender", "encryptKey",
                              "sendMessage">>,
                  sender |-> TaskSigner, recipient |-> recipient,
                  contentCID |-> cid,
                  encryptedSender |-> EncryptInput(AddressAsInt(TaskSigner)),
                  encryptedKey |-> EncryptInput(BigInt(key.digits))]

\* the task up to its await of the transaction: the two checks, then the two
\* encryptions and the sendMessage transaction signed by signers[0]
sendTask(recipient, cid, key) ==
    IF ~isAddress(recipient) THEN TaskDone([steps |-> <<>>], TaskInvalidRecipient, <<>>)
    ELSE LET keyHexLength == IF key.prefix = "0x" THEN KeyLength(key)
                             ELSE 2 + KeyLength(key)
         IN IF keyHexLength # 2 + KeyHexLen
            THEN TaskDone([steps |-> <<>>], TaskInvalidKey, <<>>)
            ELSE [pc |-> "pending",
                  steps |-> <<"initializeCLIApi", "encryptSender", "encryptKey",
                              "sendMessage">>,
                  sender |-> TaskSigner, recipient |-> recipient,
                  contentCID |-> cid,
                  encryptedSender |-> EncryptInput(AddressAsInt(TaskSigner)),
                  encryptedKey |-> EncryptInput(BigInt(key.digits))]

\* the task's transaction is executed at timestamp ts and tx.wait() returns:
\* assigned is the id the ledger gave to the message, which the task does not
\* read
sendTaskMined(st, t, ts) ==
    LET out == sendMessage(st, t.sender, ts, t.recipient, t.contentCID,
                           t.encryptedSender, TRUE, t.encryptedKey, TRUE)
    IN IF out.err # NoError
       THEN [st |-> out.st, task |-> TaskDone(t, TaskTransactionFailed, <<>>)]
       ELSE [st |-> out.st,
             task |-> [pc |-> "confirmed", steps |-> Append(t.steps, "wait"),
                       assigned |-> out.val[1]]]

\* the task reads getTotalMessages and prints the id before that count
sendTaskReport(st, t) ==
    LET messageCount_ == getTotalMessages(st, TaskSigner).val[1]
        messageId == messageCount_ - 1
    IN [pc |-> "done", err |-> NoError, val |-> <<messageId>>,
        steps |-> Append(t.steps, "getTotalMessages"), assigned |-> t.assigned]

(***************************************************************************)
(* The flag loading, and handleDeleteMessage                               *)
(***************************************************************************)
\* confirm() was answered with Cancel
ClientDeclined == "declined"
ClientDeleteFailed == "Failed to delete"

\* variant: the return after a refused decryption leaves the handler without
\* running its finally block
loadingAfter_ReturnSkipsFinally(before, r, entering) ==
    IF r.pc # "done" THEN (entering \/ before)
    ELSE IF r.err \in {ClientNotConnected, ClientDeclined} THEN before
    ELSE IF r.err = ClientDecryptionDenied THEN (entering \/ before)
    ELSE FALSE

\* the flag loading after a step of handleDecryptMessage or of
\* handleDeleteMessage that leaves the invocation as r, when it was before:
\* setLoading(true) opens the try block (entering), the returns that precede
\* the try block do not touch the flag, and the finally block clears it on
\* every way out of the try block
loadingAfter(before, r, entering) ==
    IF r.pc # "done" THEN (entering \/ before)
    ELSE IF r.err \in {ClientNotConnected, ClientDeclined} THEN before
    ELSE FALSE

\* an invocation of handleDeleteMessage that has ended
DeleteDone(messageId, err) ==
    [pc |-> "done", messageId |-> messageId, err |-> err]

\* handleDeleteMessage up to its await of the transaction: confirmed is the
\* answer to confirm(), and ~submitOk a deleteMessage call that throws (the
\* wallet refuses, or the gas estimate reverts)
handleDeleteMessage(w, messageId, confirmed, submitOk) ==
    IF w.client.account = NoAccount THEN DeleteDone(messageId, ClientNotConnected)
    ELSE IF ~confirmed THEN DeleteDone(messageId, ClientDeclined)
    ELSE IF ~submitOk THEN DeleteDone(messageId, ClientDeleteFailed)
    ELSE [pc |-> "pending", messageId |-> messageId,
          sender |-> w.client.account]

\* the delete transaction is executed and tx.wait() returns (confirmOk) or
\* throws; the lists are then loaded again
handleDeleteMessageMined(st, d, confirmOk) ==
    LET out == deleteMessage(st, d.sender, d.messageId)
    IN [st |-> out.st,
        deletion |-> DeleteDone(d.messageId,
                                IF out.err = NoError /\ confirmOk THEN NoError
                                ELSE ClientDeleteFailed)]

\* no invocation of handleDeleteMessage is in flight
NoDeletion == [pc |-> "idle"]
\* no prepare has ended with a prepared message
NoPrepare == [account |-> NoAccount, recipientAddress |-> ""]

\* the ledger, the store and the client take the values a handler leaves
ClientCommit(w) ==
    /\ messages' = w.st.messages
    /\ receivedMessages' = w.st.receivedMessages
    /\ sentMessages' = w.st.sentMessages
    /\ messageCount' = w.st.messageCount
    /\ acl' = w.st.acl
    /\ events' = w.st.events
    /\ client' = w.client
    /\ ipfs' = w.ipfs

\* the storage variables take the values a call leaves
Commit(st) ==
    /\ messages' = st.messages
    /\ receivedMessages' = st.receivedMessages
    /\ sentMessages' = st.sentMessages
    /\ messageCount' = st.messageCount
    /\ acl' = st.acl
    /\ events' = st.events

\* the record of a call that was executed: its name, msg.sender, the tuple of
\* its arguments, and what the caller gets back
Result(op, caller, args, out) ==
    [op |-> op, caller |-> caller, args |-> args, err |-> out.err,
     val |-> out.val]

Init ==
    /\ messages = [i \in Ids |-> DefaultMessage]
    /\ receivedMessages = [a \in Addresses |-> <<>>]
    /\ sentMessages = [a \in Addresses |-> <<>>]
    /\ messageCount = 0
    /\ acl = [h \in Handles \cup {NoHandle} |-> {}]
    /\ events = <<>>
    /\ now = 1
    /\ ret = [op |-> "none", caller |-> ZeroAddress, args |-> <<>>,
              err |-> NoError, val |-> <<>>]
    /\ mempool = [s \in Slots |-> [status |-> "free"]]
    /\ client = InitialClient(TRUE)
    /\ ipfs = {}
    /\ reads = [s \in ReadSlots |-> NoRead]
    /\ clock = 0
    /\ keypairsMade = 0
    /\ task = NoTask
    /\ loading = FALSE
    /\ deletion = NoDeletion
    /\ lastPrepare = NoPrepare

(***************************************************************************)
(* Actions: one per transaction or call.                                   *)
(***************************************************************************)
\* a sendMessage transaction signed by sender is mined
SendMessage(sender, _recipient, _contentCID, _encryptedSender, senderProofOk, _encryptedKey, keyProofOk) ==
    /\ messageCount < MaxMessages
    /\ LET out == sendMessage(Storage, sender, now, _recipient, _contentCID,
                              _encryptedSender, senderProofOk,
                              _encryptedKey, keyProofOk)
       IN /\ ret' = Result("sendMessage", sender,
                            <<_recipient, _contentCID, _encryptedSender,
                              senderProofOk, _encryptedKey, keyProofOk>>, out)
          /\ Commit(out.st)
    /\ UNCHANGED <<now, mempool, client, ipfs,
                   reads, clock, keypairsMade, task,
                   loading, deletion, lastPrepare>>

\* a deleteMessage transaction signed by sender is mined
DeleteMessage(sender, _messageId) ==
    /\ LET out == deleteMessage(Storage, sender, _messageId)
       IN /\ ret' = Result("deleteMessage", sender, <<_messageId>>, out)
          /\ Commit(out.st)
    /\ UNCHANGED <<now, mempool, client, ipfs,
                   reads, clock, keypairsMade, task,
                   loading, deletion, lastPrepare>>

\* a getMessage call from sender
GetMessage(sender, _messageId) ==
    /\ LET out == getMessage(Storage, sender, _messageId)
       IN /\ ret' = Result("getMessage", sender, <<_messageId>>, out)
          /\ Commit(out.st)
    /\ UNCHANGED <<now, mempool, client, ipfs,
                   reads, clock, keypairsMade, task,
                   loading, deletion, lastPrepare>>

\* an authorized-decrypt request of userAddress for a sender and a key handle
UserDecrypt(userAddress, senderHandle, keyHandle) ==
    /\ LET out == userDecrypt(Storage, userAddress, <<senderHandle, keyHandle>>)
       IN /\ ret' = Result("userDecrypt", userAddress,
                            <<senderHandle, keyHandle>>, out)
          /\ Commit(out.st)
    /\ UNCHANGED <<now, mempool, client, ipfs,
                   reads, clock, keypairsMade, task,
                   loading, deletion, lastPrepare>>

\* a getMessageMetadata call from sender
GetMessageMetadata(sender, _messageId) ==
    /\ LET out == getMessageMetadata(Storage, sender, _messageId)
       IN /\ ret' = Result("getMessageMetadata", sender, <<_messageId>>, out)
          /\ Commit(out.st)
    /\ UNCHANGED <<now, mempool, client, ipfs,
                   reads, clock, keypairsMade, task,
                   loading, deletion, lastPrepare>>

\* a getReceivedMessagesOf call from sender
GetReceivedMessagesOf(sender, _recipient) ==
    /\ LET out == getReceivedMessagesOf(Storage, sender, _recipient)
       IN /\ ret' = Result("getReceivedMessagesOf", sender, <<_recipient>>, out)
          /\ Commit(out.st)
    /\ UNCHANGED <<now, mempool, client, ipfs,
                   reads, clock, keypairsMade, task,
                   loading, deletion, lastPrepare>>

\* a getMyReceivedMessages call from sender
GetMyReceivedMessages(sender) ==
    /\ LET out == getMyReceivedMessages(Storage, sender)
       IN /\ ret' = Result("getMyReceivedMessages", sender, <<>>, out)
          /\ Commit(out.st)
    /\ UNCHANGED <<now, mempool, client, ipfs,
                   reads, clock, keypairsMade, task,
                   loading, deletion, lastPrepare>>

\* a getMySentMessages call from sender
GetMySentMessages(sender) ==
    /\ LET out == getMySentMessages(Storage, sender)
       IN /\ ret' = Result("getMySentMessages", sender, <<>>, out)
          /\ Commit(out.st)
    /\ UNCHANGED <<now, mempool, client, ipfs,
                   reads, clock, keypairsMade, task,
                   loading, deletion, lastPrepare>>

\* the chain moves on to a block with a later timestamp
Tick ==
    /\ now < MaxTime
    /\ now' = now + 1
    /\ UNCHANGED <<messages, receivedMessages, sentMessages, messageCount, acl,
                   events, ret, mempool, client, ipfs,
                   reads, clock, keypairsMade, task,
                   loading, deletion, lastPrepare>>

\* a delete transaction is signed and broadcast; it waits in the mempool.
\* live records whether, when it was issued, the message existed undeleted
\* with the signer as its recipient
IssueDelete(slot, sender, _messageId) ==
    /\ mempool[slot].status = "free"
    /\ mempool' = [mempool EXCEPT ![slot] =
                      [status |-> "pending", sender |-> sender,
                       id |-> _messageId,
                       live |-> /\ messages[_messageId].recipient = sender
                                /\ ~messages[_messageId].isDeleted]]
    /\ UNCHANGED <<messages, receivedMessages, sentMessages, messageCount, acl,
                   events, now, ret, client, ipfs,
                   reads, clock, keypairsMade, task,
                   loading, deletion, lastPrepare>>

\* the chain picks any waiting delete transaction and executes it
MineDelete(slot) ==
    /\ mempool[slot].status = "pending"
    /\ LET tx == mempool[slot]
           out == deleteMessage(Storage, tx.sender, tx.id)
       IN /\ ret' = Result("deleteMessage", tx.sender, <<tx.id>>, out)
          /\ Commit(out.st)
          /\ mempool' = [mempool EXCEPT ![slot] =
                            [status |-> "mined", sender |-> tx.sender,
                             id |-> tx.id, live |-> tx.live, err |-> out.err]]
    /\ UNCHANGED <<now, client, ipfs,
                   reads, clock, keypairsMade, task,
                   loading, deletion, lastPrepare>>

\* connectWallet, on a click or on accountsChanged: signer and contract are
\* those of the wallet's selected account
ConnectWallet(a) ==
    /\ client.account # a
    /\ client' = [client EXCEPT !.account = a]
    /\ UNCHANGED <<messages, receivedMessages, sentMessages, messageCount, acl,
                   events, now, ret, mempool, ipfs,
                   reads, clock, keypairsMade, task,
                   loading, deletion, lastPrepare>>

\* disconnectWallet
DisconnectWallet ==
    /\ client.account # NoAccount
    /\ client' = [client EXCEPT !.account = NoAccount]
    /\ UNCHANGED <<messages, receivedMessages, sentMessages, messageCount, acl,
                   events, now, ret, mempool, ipfs,
                   reads, clock, keypairsMade, task,
                   loading, deletion, lastPrepare>>

\* the form as the user has filled it when clicking
Typed(w, recipientAddress, textMessage) ==
    [w EXCEPT !.client.recipientAddress = recipientAddress,
              !.client.textMessage = textMessage]

\* a click on "Encrypt & Prepare", which is enabled when nothing is prepared
\* or being prepared and the form is filled; recipientAddress and textMessage
\* are what the user has typed into the form by then
HandlePrepareMessage(recipientAddress, textMessage, aesKey, iv) ==
    /\ ~client.preparing /\ ~client.isPrepared
    /\ recipientAddress # "" /\ textMessage # ""
    /\ LET out == handlePrepareMessage(
                      Typed(World, recipientAddress, textMessage), aesKey, iv)
       IN /\ ret' = Result("handlePrepareMessage", client.account,
                            <<recipientAddress, textMessage, aesKey, iv>>, out)
          /\ ClientCommit(out.w)
    /\ UNCHANGED <<now, mempool,
                   reads, clock, keypairsMade, task,
                   loading, deletion, lastPrepare>>

\* uploadToPinata returns or throws
UploadReturns(uploadOk) ==
    /\ client.upload.status = "uploading"
    /\ LET out == handlePrepareMessageUploaded(World, uploadOk)
       IN /\ ret' = Result("uploadToPinata", client.account, <<uploadOk>>, out)
          /\ ClientCommit(out.w)
          /\ lastPrepare' =
                 IF out.err = NoError
                 THEN [account |-> client.account,
                       recipientAddress |-> client.recipientAddress]
                 ELSE lastPrepare
    /\ UNCHANGED <<now, mempool,
                   reads, clock, keypairsMade, task,
                   loading, deletion>>

\* a click on "Confidential Send", which is enabled when a message is
\* prepared and none is being sent; recipientAddress is what the recipient
\* field holds by then, as left by the prepare or as edited since
HandleConfidentialSend(recipientAddress, submitOk) ==
    /\ client.isPrepared /\ ~client.sending
    /\ LET out == handleConfidentialSend(
                      Typed(World, recipientAddress, client.textMessage),
                      submitOk)
       IN /\ ret' = Result("handleConfidentialSend", client.account,
                            <<recipientAddress, submitOk>>, out)
          /\ ClientCommit(out.w)
    /\ UNCHANGED <<now, mempool,
                   reads, clock, keypairsMade, task,
                   loading, deletion, lastPrepare>>

\* the client's transaction is mined, and tx.wait() returns or throws
TransactionMined(confirmOk) ==
    /\ client.tx.status = "pending"
    /\ messageCount < MaxMessages
    /\ LET out == handleConfidentialSendMined(World, now, confirmOk)
       IN /\ ret' = Result("sendMessageMined", client.tx.sender,
                            <<client.tx.recipient, client.tx.contentCID,
                              client.tx.encryptedSender, TRUE,
                              client.tx.encryptedKey, TRUE, confirmOk>>, out)
          /\ ClientCommit(out.w)
    /\ UNCHANGED <<now, mempool,
                   reads, clock, keypairsMade, task,
                   loading, deletion, lastPrepare>>

\* a click on "Decrypt" for one of the messages that exist
HandleDecryptMessage(messageId, fault) ==
    /\ messageId < messageCount
    /\ LET out == handleDecryptMessage(World, messageId, fault)
       IN /\ ret' = Result("handleDecryptMessage", client.account,
                            <<messageId, fault>>, out)
          /\ ClientCommit(out.w)
          /\ loading' = loadingAfter(loading, [pc |-> "done", err |-> out.err],
                                     TRUE)
    /\ UNCHANGED <<now, mempool,
                   reads, clock, keypairsMade, task,
                   deletion, lastPrepare>>

\* a click on "Decrypt" for one of the messages that exist, in a slot where
\* no invocation is running: the handler runs to its request for a signature
ReadBegin(slot, messageId) ==
    /\ reads[slot].pc \in {"idle", "done"}
    /\ messageId < messageCount
    /\ keypairsMade < MaxReads
    /\ clock <= MaxStartDay
    /\ LET out == handleDecryptMessageBegin(World, keypairsMade, clock,
                                            messageId)
       IN /\ reads' = [reads EXCEPT ![slot] = out]
          /\ keypairsMade' =
                 IF out.pc = "done" THEN keypairsMade ELSE keypairsMade + 1
          /\ ret' = [op |-> "handleDecryptMessageBegin",
                     caller |-> client.account, args |-> <<slot, messageId>>,
                     err |-> IF out.pc = "done" THEN out.err ELSE ClientPending,
                     val |-> <<>>]
          /\ loading' = loadingAfter(loading, out, TRUE)
    /\ UNCHANGED <<messages, receivedMessages, sentMessages, messageCount, acl,
                   events, now, mempool, client, ipfs, clock, task, deletion,
                   lastPrepare>>

\* the wallet answers the request for a signature of the invocation in slot
ReadSigned(slot, signOk) ==
    /\ reads[slot].pc = "signTypedData"
    /\ LET out == handleDecryptMessageSigned(reads[slot], signOk)
       IN /\ reads' = [reads EXCEPT ![slot] = out]
          /\ ret' = [op |-> "handleDecryptMessageSigned",
                     caller |-> client.account, args |-> <<slot, signOk>>,
                     err |-> IF out.pc = "done" THEN out.err ELSE ClientPending,
                     val |-> <<>>]
          /\ loading' = loadingAfter(loading, out, FALSE)
    /\ UNCHANGED <<messages, receivedMessages, sentMessages, messageCount, acl,
                   events, now, mempool, client, ipfs, clock, keypairsMade, task,
                   deletion, lastPrepare>>

\* the relayer answers the userDecrypt request of the invocation in slot
ReadDecrypted(slot, relayerOk) ==
    /\ reads[slot].pc = "userDecrypt"
    /\ LET out == handleDecryptMessageDecrypted(World, reads[slot], clock,
                                                relayerOk)
       IN /\ reads' = [reads EXCEPT ![slot] = out]
          /\ ret' = [op |-> "handleDecryptMessageDecrypted",
                     caller |-> client.account, args |-> <<slot, relayerOk>>,
                     err |-> IF out.pc = "done" THEN out.err ELSE ClientPending,
                     val |-> <<>>]
          /\ loading' = loadingAfter(loading, out, FALSE)
    /\ UNCHANGED <<messages, receivedMessages, sentMessages, messageCount, acl,
                   events, now, mempool, client, ipfs, clock, keypairsMade, task,
                   deletion, lastPrepare>>

\* the gateway answers the fetch of the invocation in slot
ReadFetched(slot, fetchOk) ==
    /\ reads[slot].pc = "fetch"
    /\ LET out == handleDecryptMessageFetched(World, reads[slot], fetchOk)
       IN /\ reads' = [reads EXCEPT ![slot] = out]
          /\ ret' = [op |-> "handleDecryptMessageFetched",
                     caller |-> client.account, args |-> <<slot, fetchOk>>,
                     err |-> out.err, val |-> <<>>]
          /\ loading' = loadingAfter(loading, out, FALSE)
    /\ UNCHANGED <<messages, receivedMessages, sentMessages, messageCount, acl,
                   events, now, mempool, client, ipfs, clock, keypairsMade, task,
                   deletion, lastPrepare>>

\* a day passes
ClockTick ==
    /\ clock < MaxDays
    /\ clock' = clock + 1
    /\ UNCHANGED <<messages, receivedMessages, sentMessages, messageCount, acl,
                   events, now, ret, mempool, client, ipfs, reads,
                   keypairsMade, task,
                   loading, deletion, lastPrepare>>


\* the record of a conversion: what was put in and what came out
Converted(op, args, val) ==
    [op |-> op, caller |-> ZeroAddress, args |-> args, err |-> NoError,
     val |-> val]

\* the key of a prepared message is given to the runtime
Add256 ==
    /\ ret.op = "key"
    /\ ret' = Converted("add256", ret.args, <<add256(ret.args[1])>>)
    /\ UNCHANGED <<messages, receivedMessages, sentMessages, messageCount, acl,
                   events, now, mempool, client, ipfs, reads, clock,
                   keypairsMade, task,
                   loading, deletion, lastPrepare>>

\* the runtime returns the integer of the key to a reader
KeyDecrypted ==
    /\ ret.op = "add256"
    /\ ret' = Converted("decryptedKey", ret.args,
                        <<decryptedKeyToBytes(ret.val[1])>>)
    /\ UNCHANGED <<messages, receivedMessages, sentMessages, messageCount, acl,
                   events, now, mempool, client, ipfs, reads, clock,
                   keypairsMade, task,
                   loading, deletion, lastPrepare>>

\* the address of the signer is given to the runtime
AddAddress ==
    /\ ret.op = "address"
    /\ ret' = Converted("addAddress", ret.args, <<addAddress(ret.args[1])>>)
    /\ UNCHANGED <<messages, receivedMessages, sentMessages, messageCount, acl,
                   events, now, mempool, client, ipfs, reads, clock,
                   keypairsMade, task,
                   loading, deletion, lastPrepare>>

\* the runtime returns the integer of the sender to a reader
SenderDecrypted ==
    /\ ret.op = "addAddress"
    /\ LET sender == decryptedSenderToAddress(ret.val[1])
       IN ret' = Converted("decryptedSender", ret.args,
                           <<sender.ok, sender.address>>)
    /\ UNCHANGED <<messages, receivedMessages, sentMessages, messageCount, acl,
                   events, now, mempool, client, ipfs, reads, clock,
                   keypairsMade, task,
                   loading, deletion, lastPrepare>>

\* a content is encrypted under the key and the iv drawn for it
EncryptFile ==
    /\ ret.op = "content"
    /\ LET out == encryptFileWithAESHex(ret.args[1], ret.args[2], ret.args[3])
       IN ret' = Converted("encryptFileWithAES", ret.args,
                           <<out.encrypted, out.key, out.iv>>)
    /\ UNCHANGED <<messages, receivedMessages, sentMessages, messageCount, acl,
                   events, now, mempool, client, ipfs, reads, clock,
                   keypairsMade, task,
                   loading, deletion, lastPrepare>>

\* a reader decrypts the document with the key of the encryption and the iv
\* the document declares
DecryptFile ==
    /\ ret.op = "encryptFileWithAES"
    /\ LET out == decryptFileContentHex(ret.val[1], ret.val[2],
                                        hexToBytes(ret.val[3]))
       IN ret' = Converted("decryptFileContent", ret.args,
                           <<out.ok, out.plain>>)
    /\ UNCHANGED <<messages, receivedMessages, sentMessages, messageCount, acl,
                   events, now, mempool, client, ipfs, reads, clock,
                   keypairsMade, task,
                   loading, deletion, lastPrepare>>

\* the call c of SendCalls is mined
\* a click on "Delete" for one of the messages that exist, when no
\* invocation of the handler is running
ClientDelete(messageId, confirmed, submitOk) ==
    /\ deletion.pc \in {"idle", "done"}
    /\ messageId < messageCount
    /\ LET out == handleDeleteMessage(World, messageId, confirmed, submitOk)
       IN /\ deletion' = out
          /\ loading' = loadingAfter(loading, out, TRUE)
          /\ ret' = [op |-> "handleDeleteMessage", caller |-> client.account,
                     args |-> <<messageId, confirmed, submitOk>>,
                     err |-> IF out.pc = "done" THEN out.err ELSE ClientPending,
                     val |-> <<>>]
    /\ UNCHANGED <<messages, receivedMessages, sentMessages, messageCount, acl,
                   events, now, mempool, client, ipfs, reads, clock,
                   keypairsMade, task, lastPrepare>>

\* the client's delete transaction is mined, and tx.wait() returns or throws
ClientDeleteMined(confirmOk) ==
    /\ deletion.pc = "pending"
    /\ LET out == handleDeleteMessageMined(Storage, deletion, confirmOk)
       IN /\ deletion' = out.deletion
          /\ loading' = loadingAfter(loading, out.deletion, FALSE)
          /\ ret' = [op |-> "deleteMessageMined", caller |-> deletion.sender,
                     args |-> <<deletion.messageId, confirmOk>>,
                     err |-> out.deletion.err, val |-> <<>>]
          /\ Commit(out.st)
    /\ UNCHANGED <<now, mempool, client, ipfs, reads, clock, keypairsMade,
                   task, lastPrepare>>

\* the task is started with its arguments
SendTask(recipient, cid, key) ==
    /\ task.pc \in {"idle", "done"}
    /\ LET t == sendTask(recipient, cid, key)
       IN /\ task' = t
          /\ ret' = [op |-> "task:send", caller |-> TaskSigner,
                     args |-> <<recipient, cid, key>>,
                     err |-> IF t.pc = "done" THEN t.err ELSE ClientPending,
                     val |-> <<>>]
    /\ UNCHANGED <<messages, receivedMessages, sentMessages, messageCount, acl,
                   events, now, mempool, client, ipfs, reads, clock,
                   keypairsMade, loading, deletion, lastPrepare>>

\* the task's transaction is mined and tx.wait() returns or throws
SendTaskMined ==
    /\ task.pc = "pending"
    /\ messageCount < MaxMessages
    /\ LET out == sendTaskMined(Storage, task, now)
       IN /\ task' = out.task
          /\ ret' = [op |-> "task:mined", caller |-> TaskSigner,
                     args |-> <<task.recipient, task.contentCID>>,
                     err |-> IF out.task.pc = "done" THEN out.task.err
                             ELSE ClientPending,
                     val |-> <<>>]
          /\ Commit(out.st)
    /\ UNCHANGED <<now, mempool, client, ipfs, reads, clock, keypairsMade,
                   loading, deletion, lastPrepare>>

\* the task reads the count and prints the message id
SendTaskReport ==
    /\ task.pc = "confirmed"
    /\ LET t == sendTaskReport(Storage, task)
       IN /\ task' = t
          /\ ret' = [op |-> "task:report", caller |-> TaskSigner,
                     args |-> <<>>, err |-> t.err, val |-> t.val]
    /\ UNCHANGED <<messages, receivedMessages, sentMessages, messageCount, acl,
                   events, now, mempool, client, ipfs, reads, clock,
                   keypairsMade, loading, deletion, lastPrepare>>

\* an isRecipient call from sender
IsRecipient(sender, _messageId) ==
    /\ LET out == isRecipient(Storage, sender, _messageId)
       IN /\ ret' = Result("isRecipient", sender, <<_messageId>>, out)
          /\ Commit(out.st)
    /\ UNCHANGED <<now, mempool, client, ipfs,
                   reads, clock, keypairsMade, task,
                   loading, deletion, lastPrepare>>

\* a getTotalMessages or messageCount call from sender
GetTotalMessages(sender) ==
    /\ LET out == getTotalMessages(Storage, sender)
       IN /\ ret' = Result("getTotalMessages", sender, <<>>, out)
          /\ Commit(out.st)
    /\ UNCHANGED <<now, mempool, client, ipfs,
                   reads, clock, keypairsMade, task,
                   loading, deletion, lastPrepare>>

\* a call of the public getter messages(_messageId) from sender
MessagesGetter(sender, _messageId) ==
    /\ LET out == messagesGetter(Storage, sender, _messageId)
       IN /\ ret' = Result("messages", sender, <<_messageId>>, out)
          /\ Commit(out.st)
    /\ UNCHANGED <<now, mempool, client, ipfs,
                   reads, clock, keypairsMade, task,
                   loading, deletion, lastPrepare>>

Send(c) ==
    SendMessage(c.sender, c.recipient, c.contentCID, c.encryptedSender,
                c.senderProofOk, c.encryptedKey, c.keyProofOk)

SendMessageAny == \E c \in SendCalls : Send(c)

\* the calls of SendCalls that succeed
SendMessageValid ==
    \E c \in SendCalls :
        /\ c.recipient # ZeroAddress /\ c.contentCID # ""
        /\ c.senderProofOk /\ c.keyProofOk
        /\ Send(c)

DeleteMessageAny ==
    \E sender \in Users, _messageId \in Ids : DeleteMessage(sender, _messageId)

GetMessageAny ==
    \E sender \in Addresses, _messageId \in Ids : GetMessage(sender, _messageId)

UserDecryptAny ==
    \E userAddress \in Users, senderHandle \in SenderHandles,
       keyHandle \in KeyHandles :
        UserDecrypt(userAddress, senderHandle, keyHandle)

GetMessageMetadataAny ==
    \E sender \in Users, _messageId \in Ids :
        GetMessageMetadata(sender, _messageId)

ListAny ==
    \E sender \in Users :
        \/ \E _recipient \in Addresses : GetReceivedMessagesOf(sender, _recipient)
        \/ GetMyReceivedMessages(sender)
        \/ GetMySentMessages(sender)

SendTaskAny ==
    \E recipient \in RecipientInputs, cid \in TaskCids, key \in TaskKeys :
        SendTask(recipient, cid, key)

\* the sendMessage transactions of the other account that succeed
SendByOthers ==
    \E c \in SendCalls :
        /\ c.sender # TaskSigner
        /\ c.recipient # ZeroAddress /\ c.contentCID # ""
        /\ c.senderProofOk /\ c.keyProofOk
        /\ Send(c)

IsRecipientAny ==
    \E sender \in Addresses, _messageId \in Ids : IsRecipient(sender, _messageId)

GetTotalMessagesAny == \E sender \in Addresses : GetTotalMessages(sender)

MessagesGetterAny ==
    \E sender \in Addresses, _messageId \in Ids :
        MessagesGetter(sender, _messageId)

ConnectWalletAny == \E a \in Users : ConnectWallet(a)

WalletAny ==
    \/ ConnectWalletAny
    \/ DisconnectWallet

HandlePrepareMessageAny ==
    \E recipientAddress \in RecipientInputs, smp \in PrepareSamples :
        HandlePrepareMessage(recipientAddress, smp.textMessage, smp.aesKey,
                             smp.iv)

UploadReturnsAny == \E uploadOk \in BOOLEAN : UploadReturns(uploadOk)

\* the prepare and the commit when the form is valid and left as it is, and
\* the content store, the runtime, the wallet and the chain all answer
HandlePrepareMessageValid ==
    \E recipientAddress \in RecipientInputs \cap Users, smp \in PrepareSamples :
        HandlePrepareMessage(recipientAddress, smp.textMessage, smp.aesKey,
                             smp.iv)

UploadSucceeds == UploadReturns(TRUE)

HandleConfidentialSendValid ==
    HandleConfidentialSend(client.recipientAddress, TRUE)

TransactionConfirmed == TransactionMined(TRUE)

HandleConfidentialSendAny ==
    \E recipientAddress \in {client.recipientAddress} \cup RecipientInputs,
       submitOk \in BOOLEAN :
        HandleConfidentialSend(recipientAddress, submitOk)

TransactionMinedAny == \E confirmOk \in BOOLEAN : TransactionMined(confirmOk)

HandleDecryptMessageAny ==
    \E messageId \in Ids, fault \in Faults :
        HandleDecryptMessage(messageId, fault)

\* a recipient deletes one of the messages it received
DeleteByRecipient ==
    \E _messageId \in Ids :
        /\ _messageId < messageCount
        /\ DeleteMessage(messages[_messageId].recipient, _messageId)

IssueDeleteAny ==
    \E slot \in Slots, sender \in Users, _messageId \in Ids :
        IssueDelete(slot, sender, _messageId)

MineDeleteAny ==
    \E slot \in Slots : MineDelete(slot)

ReadBeginAny ==
    \E slot \in ReadSlots, messageId \in Ids : ReadBegin(slot, messageId)

ReadSignedAny ==
    \E slot \in ReadSlots, signOk \in BOOLEAN : ReadSigned(slot, signOk)

ReadDecryptedAny ==
    \E slot \in ReadSlots, relayerOk \in BOOLEAN : ReadDecrypted(slot, relayerOk)

ReadFetchedAny ==
    \E slot \in ReadSlots, fetchOk \in BOOLEAN : ReadFetched(slot, fetchOk)

ClientDeleteAny ==
    \E messageId \in Ids, confirmed \in BOOLEAN, submitOk \in BOOLEAN :
        ClientDelete(messageId, confirmed, submitOk)

ClientDeleteMinedAny == \E confirmOk \in BOOLEAN : ClientDeleteMined(confirmOk)

\* a commit while the ledger of the model has room for its message
HandleConfidentialSendInRoom ==
    /\ messageCount < MaxMessages
    /\ HandleConfidentialSendAny

(***************************************************************************)
(* Spec: the contract and the runtime, calls executed one after another    *)
(* within one block timestamp.                                             *)
(***************************************************************************)
Next ==
    \/ SendMessageAny
    \/ DeleteMessageAny
    \/ GetMessageAny
    \/ UserDecryptAny

Spec == Init /\ [][Next]_vars

(***************************************************************************)
(* SpecTime: the state-changing transactions over blocks whose timestamps  *)
(* grow.                                                                   *)
(***************************************************************************)
NextTime ==
    \/ SendMessageAny
    \/ DeleteMessageAny
    \/ Tick

SpecTime == Init /\ [][NextTime]_vars

(***************************************************************************)
(* SpecPool: two delete transactions are broadcast and wait in the         *)
(* mempool; the chain orders them as it likes, among the sendMessage       *)
(* transactions that create messages.                                      *)
(***************************************************************************)
NextPool ==
    \/ SendMessageValid
    \/ IssueDeleteAny
    \/ MineDeleteAny

SpecPool == Init /\ [][NextPool]_vars

(***************************************************************************)
(* SpecView: messages are created and deleted by their recipients over     *)
(* several blocks, and anyone reads the public metadata.                   *)
(***************************************************************************)
NextView ==
    \/ SendMessageValid
    \/ DeleteByRecipient
    \/ GetMessageMetadataAny
    \/ Tick

SpecView == Init /\ [][NextView]_vars

(***************************************************************************)
(* SpecList: messages are created and deleted by their recipients, and     *)
(* anyone reads the index lists.                                           *)
(***************************************************************************)
NextList ==
    \/ SendMessageValid
    \/ DeleteByRecipient
    \/ ListAny

SpecList == Init /\ [][NextList]_vars

(***************************************************************************)
(* SpecClient: one browser client, built with or without the content-store *)
(* keys, prepares and commits messages, while its user edits the form and  *)
(* switches accounts.                                                      *)
(***************************************************************************)
InitClient ==
    /\ messages = [i \in Ids |-> DefaultMessage]
    /\ receivedMessages = [a \in Addresses |-> <<>>]
    /\ sentMessages = [a \in Addresses |-> <<>>]
    /\ messageCount = 0
    /\ acl = [h \in Handles \cup {NoHandle} |-> {}]
    /\ events = <<>>
    /\ now = 1
    /\ ret = [op |-> "none", caller |-> ZeroAddress, args |-> <<>>,
              err |-> NoError, val |-> <<>>]
    /\ mempool = [s \in Slots |-> [status |-> "free"]]
    /\ \E hasPinataConfig \in BOOLEAN : client = InitialClient(hasPinataConfig)
    /\ ipfs = {}
    /\ reads = [s \in ReadSlots |-> NoRead]
    /\ clock = 0
    /\ keypairsMade = 0
    /\ task = NoTask
    /\ loading = FALSE
    /\ deletion = NoDeletion
    /\ lastPrepare = NoPrepare

NextClient ==
    \/ WalletAny
    \/ HandlePrepareMessageAny
    \/ UploadReturnsAny
    \/ HandleConfidentialSendAny
    \/ TransactionMinedAny

SpecClient == InitClient /\ [][NextClient]_vars

(***************************************************************************)
(* SpecRead: the client, built with the content-store keys, prepares and   *)
(* commits messages without failures, its user switches accounts and reads *)
(* messages, with and without failures of the external steps of a read,    *)
(* while recipients delete messages they received.                         *)
(***************************************************************************)
NextRead ==
    \/ ConnectWalletAny
    \/ HandlePrepareMessageValid
    \/ UploadSucceeds
    \/ HandleConfidentialSendValid
    \/ TransactionConfirmed
    \/ DeleteByRecipient
    \/ HandleDecryptMessageAny

SpecRead == Init /\ [][NextRead]_vars

(***************************************************************************)
(* SpecSession: the recipient of two messages that the client prepared and *)
(* committed reads them, several invocations of handleDecryptMessage at    *)
(* once, while the days pass.                                              *)
(***************************************************************************)
\* the world after the account a has prepared the sample smp for recipient
\* and committed it at timestamp ts, every external step succeeding
SentByClient(w, a, recipient, smp, ts) ==
    LET w0 == [w EXCEPT !.client.account = a]
        w1 == handlePrepareMessage(Typed(w0, recipient, smp.textMessage),
                                   smp.aesKey, smp.iv).w
        w2 == handlePrepareMessageUploaded(w1, TRUE).w
        w3 == handleConfidentialSend(w2, TRUE).w
    IN handleConfidentialSendMined(w3, ts, TRUE).w

\* alice has sent "hello" and "bye" to bob, and bob has connected his wallet
SessionWorld ==
    LET w0 == [st |-> [messages |-> [i \in Ids |-> DefaultMessage],
                       receivedMessages |-> [a \in Addresses |-> <<>>],
                       sentMessages |-> [a \in Addresses |-> <<>>],
                       messageCount |-> 0,
                       acl |-> [h \in Handles \cup {NoHandle} |-> {}],
                       events |-> <<>>],
               ipfs |-> {},
               client |-> InitialClient(TRUE)]
        hello == CHOOSE smp \in PrepareSamples : smp.textMessage = "hello"
        bye == CHOOSE smp \in PrepareSamples : smp.textMessage = "bye"
        w1 == SentByClient(w0, "alice", "bob", hello, 1)
        w2 == SentByClient(w1, "alice", "bob", bye, 1)
    IN [w2 EXCEPT !.client.account = "bob"]

InitSession ==
    /\ messages = SessionWorld.st.messages
    /\ receivedMessages = SessionWorld.st.receivedMessages
    /\ sentMessages = SessionWorld.st.sentMessages
    /\ messageCount = SessionWorld.st.messageCount
    /\ acl = SessionWorld.st.acl
    /\ events = SessionWorld.st.events
    /\ now = 1
    /\ ret = [op |-> "none", caller |-> ZeroAddress, args |-> <<>>,
              err |-> NoError, val |-> <<>>]
    /\ mempool = [s \in Slots |-> [status |-> "free"]]
    /\ client = SessionWorld.client
    /\ ipfs = SessionWorld.ipfs
    /\ reads = [s \in ReadSlots |-> NoRead]
    /\ clock = 0
    /\ keypairsMade = 0
    /\ task = NoTask
    /\ loading = FALSE
    /\ deletion = NoDeletion
    /\ lastPrepare = NoPrepare

NextSession ==
    \/ ReadBeginAny
    \/ ReadSignedAny
    \/ ReadDecryptedAny
    \/ ReadFetchedAny
    \/ ClockTick

SpecSession == InitSession /\ [][NextSession]_vars

(***************************************************************************)
(* SpecCodec: a key, an address or a content goes through the conversions  *)
(* of a commit and of a read.                                              *)
(***************************************************************************)
\* the keys and the ivs the cipher is examined with
CipherKeys == BytesOf(KeyBytes, {0, 255})
CipherIvs == BytesOf(IvBytes, {1, 16})
\* the contents the cipher is examined with
Contents ==
    UNION {BytesOf(n, ByteSamples) : n \in 0..MaxContentLen}

InitCodec ==
    /\ messages = [i \in Ids |-> DefaultMessage]
    /\ receivedMessages = [a \in Addresses |-> <<>>]
    /\ sentMessages = [a \in Addresses |-> <<>>]
    /\ messageCount = 0
    /\ acl = [h \in Handles \cup {NoHandle} |-> {}]
    /\ events = <<>>
    /\ now = 1
    /\ mempool = [s \in Slots |-> [status |-> "free"]]
    /\ client = InitialClient(TRUE)
    /\ ipfs = {}
    /\ reads = [s \in ReadSlots |-> NoRead]
    /\ clock = 0
    /\ keypairsMade = 0
    /\ task = NoTask
    /\ loading = FALSE
    /\ deletion = NoDeletion
    /\ lastPrepare = NoPrepare
    /\ \/ \E key \in BytesOf(KeyBytes, ByteSamples) :
              ret = Converted("key", <<key>>, <<>>)
       \/ \E address \in BytesOf(AddrBytes, ByteSamples) :
              ret = Converted("address", <<address>>, <<>>)
       \/ \E content \in Contents, key \in CipherKeys, iv \in CipherIvs :
              ret = Converted("content", <<content, key, iv>>, <<>>)

NextCodec ==
    \/ Add256
    \/ KeyDecrypted
    \/ AddAddress
    \/ SenderDecrypted
    \/ EncryptFile
    \/ DecryptFile

SpecCodec == InitCodec /\ [][NextCodec]_vars

(***************************************************************************)
(* SpecTask: the command-line task is run, again and again, while the      *)
(* other account sends messages of its own and blocks go by.               *)
(***************************************************************************)
NextTask ==
    \/ SendTaskAny
    \/ SendTaskMined
    \/ SendTaskReport
    \/ SendByOthers
    \/ Tick

SpecTask == Init /\ [][NextTask]_vars

(***************************************************************************)
(* SpecAccess: messages are sent and deleted, and every address calls      *)
(* every view of the contract, the generated getters included.             *)
(***************************************************************************)
NextAccess ==
    \/ SendMessageAny
    \/ DeleteMessageAny
    \/ GetMessageAny
    \/ GetMessageMetadataAny
    \/ ListAny
    \/ IsRecipientAny
    \/ GetTotalMessagesAny
    \/ MessagesGetterAny

SpecAccess == Init /\ [][NextAccess]_vars

(***************************************************************************)
(* SpecBusy: bob, who has received a message, prepares and commits,        *)
(* decrypts and deletes; every external call that a handler awaits (the    *)
(* content store, the wallet, the relayer, the gateway, the chain)         *)
(* eventually returns or fails.                                            *)
(***************************************************************************)
\* alice has sent "hello" to bob, and bob has connected his wallet to a
\* client built with or without the keys of the content store
BusyWorld(hasPinataConfig) ==
    LET w0 == [st |-> [messages |-> [i \in Ids |-> DefaultMessage],
                       receivedMessages |-> [a \in Addresses |-> <<>>],
                       sentMessages |-> [a \in Addresses |-> <<>>],
                       messageCount |-> 0,
                       acl |-> [h \in Handles \cup {NoHandle} |-> {}],
                       events |-> <<>>],
               ipfs |-> {},
               client |-> InitialClient(TRUE)]
        hello == CHOOSE smp \in PrepareSamples : smp.textMessage = "hello"
        w1 == SentByClient(w0, "alice", "bob", hello, 1)
    IN [w1 EXCEPT !.client.account = "bob",
                  !.client.hasPinataConfig = hasPinataConfig]

InitBusy ==
    /\ \E hasPinataConfig \in BOOLEAN :
           /\ messages = BusyWorld(hasPinataConfig).st.messages
           /\ receivedMessages = BusyWorld(hasPinataConfig).st.receivedMessages
           /\ sentMessages = BusyWorld(hasPinataConfig).st.sentMessages
           /\ messageCount = BusyWorld(hasPinataConfig).st.messageCount
           /\ acl = BusyWorld(hasPinataConfig).st.acl
           /\ events = BusyWorld(hasPinataConfig).st.events
           /\ client = BusyWorld(hasPinataConfig).client
           /\ ipfs = BusyWorld(hasPinataConfig).ipfs
    /\ now = 1
    /\ ret = [op |-> "none", caller |-> ZeroAddress, args |-> <<>>,
              err |-> NoError, val |-> <<>>]
    /\ mempool = [s \in Slots |-> [status |-> "free"]]
    /\ reads = [s \in ReadSlots |-> NoRead]
    /\ clock = 0
    /\ keypairsMade = 0
    /\ task = NoTask
    /\ loading = FALSE
    /\ deletion = NoDeletion
    /\ lastPrepare = NoPrepare

\* the form of the send tab has not been used
FormUntouched ==
    \E hasPinataConfig \in BOOLEAN : client = BusyWorld(hasPinataConfig).client

\* nothing has been decrypted or deleted in the list of messages
ListUntouched ==
    /\ reads = [slot \in ReadSlots |-> NoRead]
    /\ deletion = NoDeletion

\* the user stays in one tab: prepares and commits in the send tab, or, in
\* the list of messages, one decryption at a time beside a deletion
NextBusy ==
    \/ ListUntouched /\ HandlePrepareMessageAny
    \/ UploadReturnsAny
    \/ ListUntouched /\ HandleConfidentialSendInRoom
    \/ TransactionMinedAny
    \/ FormUntouched /\ \E messageId \in Ids : ReadBegin(1, messageId)
    \/ ReadSignedAny
    \/ ReadDecryptedAny
    \/ ReadFetchedAny
    \/ FormUntouched /\ ClientDeleteAny
    \/ ClientDeleteMinedAny

\* each awaited call returns or throws
ExternalCallsReturn ==
    /\ WF_vars(UploadReturnsAny)
    /\ WF_vars(TransactionMinedAny)
    /\ WF_vars(ClientDeleteMinedAny)
    /\ \A slot \in ReadSlots :
           /\ WF_vars(\E signOk \in BOOLEAN : ReadSigned(slot, signOk))
           /\ WF_vars(\E relayerOk \in BOOLEAN : ReadDecrypted(slot, relayerOk))
           /\ WF_vars(\E fetchOk \in BOOLEAN : ReadFetched(slot, fetchOk))

SpecBusy == InitBusy /\ [][NextBusy]_vars /\ ExternalCallsReturn

(***************************************************************************)
(* Properties.  The last call and its outcome are in ret; the step         *)
(* predicates below say that a step is that call, with those arguments.    *)
(***************************************************************************)
TypeOK ==
    /\ messageCount \in 0..MaxMessages
    /\ now \in 1..MaxTime
    /\ \A i \in Ids : i >= messageCount => messages[i] = DefaultMessage

\* the step is a sendMessage transaction
SendStep ==
    /\ ret'.op = "sendMessage"
    /\ SendMessage(ret'.caller, ret'.args[1], ret'.args[2], ret'.args[3],
                   ret'.args[4], ret'.args[5], ret'.args[6])

\* the step is a deleteMessage transaction
DeleteStep ==
    /\ ret'.op = "deleteMessage"
    /\ DeleteMessage(ret'.caller, ret'.args[1])

\* the step is a getMessage call
GetStep ==
    /\ ret'.op = "getMessage"
    /\ GetMessage(ret'.caller, ret'.args[1])

\* the step is an authorized-decrypt request
DecryptStep ==
    /\ ret'.op = "userDecrypt"
    /\ UserDecrypt(ret'.caller, ret'.args[1], ret'.args[2])

\* the ids of the messages created so far
Created == {i \in Ids : i < messageCount}

\* message i was created with handle h in one of its protected fields
Carries(i, h) ==
    h \in {messages[i].encryptedSender, messages[i].encryptedKey}

\* the user addresses that received a message created with handle h
RecipientsOf(h) == {messages[i].recipient : i \in {j \in Created : Carries(j, h)}}

\* the MessageDeleted events logged for message i
DeletionEvents(i) ==
    {k \in 1..Len(events) :
        events[k].name = "MessageDeleted" /\ events[k].messageId = i}

\* the MessageSent events, in the order they were logged
SentEvents == SelectSeq(events, LAMBDA e : e.name = "MessageSent")

\* the fields of a message that are fixed at creation
FixedFields(m) ==
    <<m.encryptedSender, m.recipient, m.contentCID, m.encryptedKey, m.timestamp>>

\* C1: getMessage(id) from a caller succeeds if and only if the caller is
\* the recipient stored for id and the message is not deleted; then it returns
\* the four stored fields, and in every other case it fails with an error and
\* returns nothing.
C1_RetrieveIffRecipientAndNotDeleted ==
    [][GetStep =>
        LET c == ret'.caller
            i == ret'.args[1]
        IN /\ (ret'.err = NoError) <=>
                  (messages[i].recipient = c /\ ~messages[i].isDeleted)
           /\ ret'.err # NoError =>
                  /\ ret'.err \in {ErrMessageDeleted, ErrNotAuthorized}
                  /\ ret'.val = <<>>
           /\ ret'.err = NoError =>
                  ret'.val = <<messages[i].encryptedSender,
                               messages[i].contentCID,
                               messages[i].encryptedKey,
                               messages[i].timestamp>>]_vars

\* the recipient has read one of its messages while another message is deleted
C1_Witness ==
    /\ ret.op = "getMessage"
    /\ ret.err = NoError
    /\ ret.args[1] \in Created
    /\ ret.caller = messages[ret.args[1]].recipient
    /\ ret.val[2] = messages[ret.args[1]].contentCID
    /\ \E j \in Created : messages[j].isDeleted

C4_DeleteOnlyByRecipient ==
    [][DeleteStep =>
        LET u == ret'.caller
            i == ret'.args[1]
        IN (i \in Created /\ ~messages[i].isDeleted) =>
              IF u # messages[i].recipient
              THEN /\ ret'.err = ErrNotAuthorized
                   /\ ~messages'[i].isDeleted
                   /\ events' = events
              ELSE /\ ret'.err = NoError
                   /\ messages'[i].isDeleted]_vars

\* a user other than the recipient tried to delete a live message
C4_Witness ==
    /\ ret.op = "deleteMessage"
    /\ ret.err = ErrNotAuthorized
    /\ ret.args[1] \in Created
    /\ ~messages[ret.args[1]].isDeleted
    /\ messages[ret.args[1]].recipient # ret.caller

\* C5 as stated: once a message is deleted, every later deleteMessage on it,
\* by any caller, fails with "Already deleted".
C5_Original_LaterDeleteIsStateError ==
    [][(DeleteStep /\ messages[ret'.args[1]].isDeleted) =>
          ret'.err = ErrAlreadyDeleted]_vars

\* C5 amended: the first deleteMessage by the recipient succeeds and sets
\* isDeleted; every later deleteMessage on that id fails, with "Already
\* deleted" when the caller is the recipient and with "Not authorized" when
\* it is anyone else (the authorization check comes first), and leaves the
\* storage as it was.
C5_DeleteIsSingleUse ==
    [][DeleteStep =>
        LET u == ret'.caller
            i == ret'.args[1]
        IN /\ (i \in Created /\ ~messages[i].isDeleted
                  /\ u = messages[i].recipient) =>
                 (ret'.err = NoError /\ messages'[i].isDeleted)
           /\ messages[i].isDeleted =>
                 /\ ret'.err = IF u = messages[i].recipient
                                THEN ErrAlreadyDeleted ELSE ErrNotAuthorized
                 /\ messages'[i].isDeleted
                 /\ Storage' = Storage]_vars

\* the recipient tried to delete a message a second time
C5_Witness ==
    /\ ret.op = "deleteMessage"
    /\ ret.err = ErrAlreadyDeleted
    /\ messages[ret.args[1]].isDeleted
    /\ ret.caller = messages[ret.args[1]].recipient

\* the two delete transactions were both issued by the recipient of the same
\* message while it was not deleted, and both have been mined
BothMinedOnLive(a, b) ==
    /\ a # b
    /\ mempool[a].status = "mined" /\ mempool[b].status = "mined"
    /\ mempool[a].id = mempool[b].id
    /\ mempool[a].sender = mempool[b].sender
    /\ mempool[a].live /\ mempool[b].live

\* C6: two delete transactions for the same undeleted message, issued by its
\* recipient while both are in flight, end in whichever order the chain mines
\* them with exactly one success and one "Already deleted", and exactly one
\* MessageDeleted event for that id.
C6_ConcurrentDeletesOneWins ==
    \A a \in Slots, b \in Slots :
        BothMinedOnLive(a, b) =>
          /\ {mempool[a].err, mempool[b].err} = {NoError, ErrAlreadyDeleted}
          /\ Cardinality(DeletionEvents(mempool[a].id)) = 1
          /\ messages[mempool[a].id].isDeleted

\* both were mined, and the one the chain took first was tx2
C6_Witness ==
    /\ BothMinedOnLive("tx1", "tx2")
    /\ mempool["tx1"].err = ErrAlreadyDeleted
    /\ mempool["tx2"].err = NoError

\* C7: a message goes absent -> created -> deleted and no further: a record
\* appears only by a successful sendMessage, which takes the next id and
\* starts undeleted; isDeleted changes only from false to true and only by a
\* deleteMessage on that id; and the recipient, locator, both handles and the
\* timestamp of a created message never change.
C7_Lifecycle ==
    [][(messages' # messages \/ messageCount' # messageCount) =>
        /\ \A i \in Ids :
             /\ messages[i].isDeleted => messages'[i].isDeleted
             /\ messages'[i].isDeleted # messages[i].isDeleted =>
                   /\ i \in Created
                   /\ DeleteStep /\ ret'.args[1] = i
             /\ i \in Created =>
                   FixedFields(messages'[i]) = FixedFields(messages[i])
             /\ (i \notin Created /\ messages'[i] # messages[i]) =>
                   /\ i = messageCount
                   /\ ~messages'[i].isDeleted
                   /\ SendStep /\ ret'.err = NoError
        /\ messageCount' # messageCount =>
             /\ messageCount' = messageCount + 1
             /\ messages'[messageCount] # DefaultMessage
             /\ SendStep /\ ret'.err = NoError]_vars

\* in a later block than its creation a message has been deleted, while
\* another message exists
C7_Witness ==
    /\ messageCount = MaxMessages
    /\ \E i \in Created :
          /\ messages[i].isDeleted
          /\ messages[i].timestamp < now
          /\ messages[i].contentCID # ""

\* C8: the counter equals the number of successful sendMessage executions;
\* the k-th successful one returns id k-1 (logged in its event), so the ids
\* handed out are 0 .. count-1 in execution order and none twice; a failed
\* sendMessage, a deleteMessage or a read leaves the counter alone.
C8_SequentialIds ==
    /\ [](/\ Len(SentEvents) = messageCount
          /\ \A k \in 1..Len(SentEvents) : SentEvents[k].messageId = k - 1)
    /\ [][IF SendStep /\ ret'.err = NoError
          THEN /\ ret'.val = <<messageCount>>
               /\ messageCount' = messageCount + 1
          ELSE messageCount' = messageCount]_vars

\* the second successful sendMessage returned id 1, after message 0 was
\* deleted
C8_Witness ==
    /\ ret.op = "sendMessage"
    /\ ret.err = NoError
    /\ ret.val = <<1>>
    /\ messageCount = 2
    /\ messages[0].isDeleted

\* C9: a sendMessage or deleteMessage that fails, for whatever reason, leaves
\* the records, the counter, both indices, the grants and the event log as
\* they were; a sendMessage with valid arguments whose key proof is rejected
\* after its sender proof was accepted fails and leaves no grant and no
\* record.
C9_FailedCallChangesNothing ==
    [][/\ (SendStep \/ DeleteStep) /\ ret'.err # NoError => Storage' = Storage
       /\ (SendStep /\ ret'.args[4] /\ ~ret'.args[6]) => ret'.err # NoError]_vars

\* with messages and grants in place, a call with valid arguments and an
\* accepted sender proof had its key proof rejected, and its sender handle
\* has no holder
C9_Witness ==
    /\ ret.op = "sendMessage"
    /\ ret.err = ErrKeyProof
    /\ ret.args[4]
    /\ messageCount > 0
    /\ acl[ret.args[3]] = {}

\* C10: sendMessage fails with "Invalid recipient" when the recipient is the
\* zero address and otherwise with "Empty content CID" when the locator is
\* empty, whoever signs and whatever the other arguments are, also when a
\* proof would be rejected: the two checks come before the proofs.
C10_ValidationBeforeProofs ==
    [][SendStep =>
        LET _recipient == ret'.args[1]
            _contentCID == ret'.args[2]
        IN (_recipient = ZeroAddress \/ _contentCID = "") =>
              ret'.err = IF _recipient = ZeroAddress
                         THEN ErrInvalidRecipient ELSE ErrEmptyCID]_vars

\* a call with a valid recipient, an empty locator and two proofs the runtime
\* would reject failed on the locator
C10_Witness ==
    /\ ret.op = "sendMessage"
    /\ ret.err = ErrEmptyCID
    /\ ret.args[1] # ZeroAddress
    /\ ~ret.args[4] /\ ~ret.args[6]

\* the step is a getMessageMetadata call
MetadataStep ==
    /\ ret'.op = "getMessageMetadata"
    /\ GetMessageMetadata(ret'.caller, ret'.args[1])

\* the step is a getReceivedMessagesOf call
ReceivedOfStep ==
    /\ ret'.op = "getReceivedMessagesOf"
    /\ GetReceivedMessagesOf(ret'.caller, ret'.args[1])

\* the address that signed the transaction which created message i, as logged
SignerOf(i) == SentEvents[i + 1].sender

\* the number of times id i occurs in the sequence s
Occurrences(s, i) == Cardinality({k \in 1..Len(s) : s[k] = i})

\* C11: after a successful sendMessage returning id, getMessageMetadata(id)
\* from any address returns (recipient, locator, block timestamp of that
\* sendMessage, false); and whenever it is called later for a created id, by
\* anyone, it succeeds and returns the recipient, locator and timestamp that
\* were logged at creation, with the last component true exactly when a
\* deleteMessage on that id has succeeded.
C11_MetadataIsCreationRecord ==
    /\ [][(SendStep /\ ret'.err = NoError) =>
            \A c \in Addresses :
                getMessageMetadata(Storage', c, ret'.val[1]).val =
                    <<ret'.args[1], ret'.args[2], now, FALSE>>]_vars
    /\ [][(MetadataStep /\ ret'.args[1] \in Created) =>
            LET i == ret'.args[1]
                e == SentEvents[i + 1]
            IN /\ ret'.err = NoError
               /\ ret'.val = <<e.recipient, e.contentCID, e.timestamp,
                               DeletionEvents(i) # {}>>]_vars

\* somebody who is not the recipient read the metadata of a deleted message
\* in a later block than its creation, after another message was created
C11_Witness ==
    /\ ret.op = "getMessageMetadata"
    /\ ret.args[1] \in Created
    /\ ret.caller # ret.val[1]
    /\ ret.val[4]
    /\ ret.val[3] < now
    /\ messageCount = MaxMessages

\* C12: every created id occurs exactly once in the received list of its
\* recipient and in no other received list, and exactly once in the sent list
\* of the address that signed its creation and in no other sent list;
\* deleteMessage changes neither index.
C12_IndexedOncePerMessage ==
    /\ [](\A i \in Created, a \in Addresses :
            /\ Occurrences(receivedMessages[a], i) =
                   IF a = messages[i].recipient THEN 1 ELSE 0
            /\ Occurrences(sentMessages[a], i) =
                   IF a = SignerOf(i) THEN 1 ELSE 0)
    /\ [][DeleteStep => /\ receivedMessages' = receivedMessages
                        /\ sentMessages' = sentMessages]_vars

\* a message whose signer is not its recipient has been deleted by its
\* recipient, while the recipient has another message in its received list
C12_Witness ==
    /\ ret.op = "deleteMessage"
    /\ ret.err = NoError
    /\ SignerOf(ret.args[1]) # ret.caller
    /\ Len(receivedMessages[ret.caller]) = 2
    /\ Len(sentMessages[SignerOf(ret.args[1])]) >= 1

\* C13: a successful sendMessage to r makes getReceivedMessagesOf(r) the
\* previous list with the new id appended at the end, the earlier entries in
\* place, and leaves getReceivedMessagesOf(a) unchanged for every other
\* address a; getReceivedMessagesOf returns the stored list to any caller.
C13_SubmitAppendsToReceived ==
    /\ [][(SendStep /\ ret'.err = NoError) =>
            \A a \in Addresses, c \in Users :
                LET before == getReceivedMessagesOf(Storage, c, a).val[1]
                    after == getReceivedMessagesOf(Storage', c, a).val[1]
                IN IF a = ret'.args[1]
                   THEN /\ Len(after) = Len(before) + 1
                        /\ after[Len(after)] = ret'.val[1]
                        /\ \A k \in 1..Len(before) : after[k] = before[k]
                   ELSE after = before]_vars
    /\ [][ReceivedOfStep =>
            /\ ret'.err = NoError
            /\ ret'.val = <<receivedMessages[ret'.args[1]]>>]_vars

\* after two messages to the same recipient, a user other than that recipient
\* listed the recipient's received messages
C13_Witness ==
    /\ ret.op = "getReceivedMessagesOf"
    /\ ret.caller # ret.args[1]
    /\ ret.val = <<(<<0, 1>>)>>
    /\ messages[1].recipient = ret.args[1]

\* C14: getMessage on a deleted message fails with "Message deleted" for
\* every caller, the recipient and everyone else alike; on a message that is
\* not deleted it fails with "Not authorized" for every caller but the
\* recipient.
C14_DeletedCheckTakesPrecedence ==
    [][GetStep =>
        LET u == ret'.caller
            i == ret'.args[1]
        IN /\ messages[i].isDeleted =>
                 (ret'.err = ErrMessageDeleted /\ ret'.val = <<>>)
           /\ (~messages[i].isDeleted /\ u # messages[i].recipient) =>
                 (ret'.err = ErrNotAuthorized /\ ret'.val = <<>>)]_vars

\* a user who is not the recipient called getMessage on a deleted message
C14_Witness ==
    /\ ret.op = "getMessage"
    /\ ret.err = ErrMessageDeleted
    /\ messages[ret.args[1]].isDeleted
    /\ ret.caller \in Users
    /\ ret.caller # messages[ret.args[1]].recipient

\* C19: sendMessage never deduplicates: a call with a valid recipient and
\* locator and accepted proofs succeeds whatever messages exist already, also
\* one with the same recipient, locator and signer; it takes the next id,
\* adds one to the counter, writes a new record and appends the id to the
\* recipient's received list and to the signer's sent list.  Two such
\* identical calls thus leave two messages with consecutive ids.
C19_CommitIsNotIdempotent ==
    [][(SendStep /\ ret'.args[1] # ZeroAddress /\ ret'.args[2] # ""
           /\ ret'.args[4] /\ ret'.args[6]) =>
        LET r == ret'.args[1]
            u == ret'.caller
        IN /\ ret'.err = NoError
           /\ ret'.val = <<messageCount>>
           /\ messageCount' = messageCount + 1
           /\ messages'[messageCount].recipient = r
           /\ messages'[messageCount].contentCID = ret'.args[2]
           /\ \A i \in Created : messages'[i] = messages[i]
           /\ receivedMessages'[r] = Append(receivedMessages[r], messageCount)
           /\ sentMessages'[u] = Append(sentMessages[u], messageCount)]_vars

\* two messages with consecutive ids have the same recipient, locator and
\* signer, and both are in the recipient's and the signer's lists
C19_Witness ==
    /\ ret.op = "sendMessage"
    /\ ret.err = NoError
    /\ ret.val = <<1>>
    /\ messages[0].recipient = messages[1].recipient
    /\ messages[0].contentCID = messages[1].contentCID
    /\ SignerOf(0) = SignerOf(1)
    /\ receivedMessages[messages[0].recipient] = <<0, 1>>
    /\ sentMessages[SignerOf(0)] = <<0, 1>>

\* the step is a click on "Encrypt & Prepare"
PrepareStep ==
    /\ ret'.op = "handlePrepareMessage"
    /\ HandlePrepareMessage(ret'.args[1], ret'.args[2], ret'.args[3],
                            ret'.args[4])

\* the step is the answer of the content store to an upload
UploadStep ==
    /\ ret'.op = "uploadToPinata"
    /\ UploadReturns(ret'.args[1])

\* the step is a click on "Confidential Send"
ConfidentialSendStep ==
    /\ ret'.op = "handleConfidentialSend"
    /\ HandleConfidentialSend(ret'.args[1], ret'.args[2])

\* the step is the mining of the client's transaction
MinedStep ==
    /\ ret'.op = "sendMessageMined"
    /\ TransactionMined(ret'.args[7])

\* the step is a click on "Decrypt"
ReadStep ==
    /\ ret'.op = "handleDecryptMessage"
    /\ HandleDecryptMessage(ret'.args[1], ret'.args[2])

\* the step submits a sendMessage transaction of the client
SubmitIssued == ConfidentialSendStep /\ client'.tx.status = "pending"

\* the document pinned under the locator of message i
DocumentOf(i) == CHOOSE doc \in Pinned(ipfs, messages[i].contentCID) : TRUE

\* C15: when the client has prepared a content and committed it to a
\* recipient, and the message is not deleted, a read of that id by the
\* recipient in which no external step fails ends with the download of exactly
\* that content, showing as sender the account that signed the commit and
\* using as key the key the content was encrypted with, which is the integer
\* held under the message's key handle; whatever other messages were
\* committed or deleted before.
C15_RoundTrip ==
    [][ReadStep =>
        LET i == ret'.args[1]
        IN (/\ ret'.args[2] = "none"
            /\ ~messages[i].isDeleted
            /\ ret'.caller = messages[i].recipient
            /\ Pinned(ipfs, messages[i].contentCID) # {}) =>
              /\ ret'.err = NoError
              /\ ret'.val = ReadResult(StepsTo("download"), SignerOf(i),
                                       DocumentOf(i).content.key,
                                       DocumentOf(i).content.plain)
              /\ BigInt(ret'.val[3]) = Cleartext(messages[i].encryptedKey)
              /\ Len(ret'.val[3]) = KeyHexLen]_vars

\* the recipient has downloaded "bye", sent as the second message by another
\* account than the first, after the first message was deleted
C15_Witness ==
    /\ ret.op = "handleDecryptMessage"
    /\ ret.err = NoError
    /\ ret.args[1] = 1
    /\ ret.val[4] = "bye"
    /\ ret.val[2] = SignerOf(1)
    /\ SignerOf(0) # SignerOf(1)
    /\ messages[0].isDeleted

\* C16: the client submits a transaction only while the prepared flag is up,
\* and the locator in it is the prepared locator, which the content store
\* returned for a document it pinned; the flag is up only then.  When the
\* upload fails, and when the store keys are not configured, the flag stays
\* down, no transaction is submitted, nothing is pinned and no upload is left
\* in flight: the put is not tried again.
C16_SubmitOnlyAfterSuccessfulPut ==
    /\ [](/\ client.isPrepared => Pinned(ipfs, client.preparedCid) # {}
          /\ client.tx.status = "pending" =>
                 Pinned(ipfs, client.tx.contentCID) # {}
          /\ ~client.hasPinataConfig =>
                 (~client.isPrepared /\ client.tx.status = "idle"
                    /\ ipfs = {} /\ messageCount = 0))
    /\ [][SubmitIssued =>
            /\ client.isPrepared
            /\ client'.tx.contentCID = client.preparedCid]_vars
    /\ [][(UploadStep /\ ~ret'.args[1]) =>
            /\ ret'.err = ClientUploadFailed
            /\ ~client'.isPrepared
            /\ client'.tx = client.tx
            /\ client'.upload = Idle
            /\ ipfs' = ipfs]_vars
    /\ [][(PrepareStep /\ ~client.hasPinataConfig) =>
            /\ ret'.err # NoError
            /\ ~client'.isPrepared
            /\ client'.tx = client.tx
            /\ client'.upload = Idle
            /\ ipfs' = ipfs]_vars

\* after a message was committed, the upload of the next prepare failed: the
\* flag is down and nothing is in flight
C16_Witness ==
    /\ ret.op = "uploadToPinata"
    /\ ret.err = ClientUploadFailed
    /\ ~client.isPrepared
    /\ client.upload = Idle /\ client.tx = Idle
    /\ messageCount = 1

\* C17: in every transaction the client submits, and in every message such a
\* transaction creates, the integer under the key handle is the key that
\* encrypted the document pinned under the locator, whatever prepares,
\* failed and repeated commits, account changes and disconnections came
\* before.
C17_KeyBoundToLocator ==
    /\ [](\A i \in Created :
            /\ Pinned(ipfs, messages[i].contentCID) # {}
            /\ BigInt(DocumentOf(i).content.key) =
                   Cleartext(messages[i].encryptedKey))
    /\ [][SubmitIssued =>
            \E doc \in Pinned(ipfs, client'.tx.contentCID) :
                BigInt(doc.content.key) = Cleartext(client'.tx.encryptedKey)]_vars

\* two messages with different keys and locators were committed by different
\* accounts, the second after a commit that failed
C17_Witness ==
    /\ ret.op = "handleConfidentialSend"
    /\ ret.err = ClientPending
    /\ messageCount = 1
    /\ client.tx.contentCID # messages[0].contentCID
    /\ client.tx.encryptedKey # messages[0].encryptedKey
    /\ client.tx.sender # SignerOf(0)

\* C18: a click on "Encrypt & Prepare" and the answer of the content store,
\* whatever their outcome (prepared, upload failed, manual mode, invalid
\* input, not connected), leave the counter, the records, both indices, the
\* grants and the event log as they were; the counter changes only when the
\* client's transaction is mined.
C18_PrepareLeavesLedgerAlone ==
    /\ [][(PrepareStep \/ UploadStep) => Storage' = Storage]_vars
    /\ [][messageCount' # messageCount =>
            (MinedStep /\ ret'.val = <<messageCount>>)]_vars

\* with one message on the ledger, the next prepare succeeded
C18_Witness ==
    /\ ret.op = "uploadToPinata"
    /\ ret.err = NoError
    /\ client.isPrepared
    /\ messageCount = 1
    /\ Cardinality(ipfs) = 2

\* C20: in a read whose getMessage succeeded, a refusal of the signature or a
\* failure of the runtime's user decryption ends the handler in the one
\* outcome "FHE decryption failed", at that step: no sender and no key is
\* shown, the content store is not asked and nothing is downloaded; a failure
\* of the gateway ends it in the other outcome, "Decryption failed".  The
\* handler changes nothing on the ledger, in the store or in the client.
C20_DecryptionDeniedIsOneOutcome ==
    [][ReadStep =>
        LET i == ret'.args[1]
            fault == ret'.args[2]
            readable == /\ ~messages[i].isDeleted
                        /\ ret'.caller = messages[i].recipient
        IN /\ (readable /\ fault \in {"signTypedData", "userDecrypt"}) =>
                 /\ ret'.err = ClientDecryptionDenied
                 /\ ret'.val = ReadResult(StepsTo(fault), "", <<>>, "")
           /\ ret'.err = ClientDecryptionDenied =>
                 /\ ret'.val[2] = "" /\ ret'.val[3] = <<>> /\ ret'.val[4] = ""
                 /\ \A k \in 1..Len(ret'.val[1]) :
                        ret'.val[1][k] \notin {"fetch", "decryptFileContent",
                                               "download"}
           /\ (readable /\ fault = "fetch") =>
                 /\ ret'.err = ClientReadFailed
                 /\ ret'.val[4] = ""
           /\ ret'.err # NoError => ret'.val[4] = ""
           /\ World' = World]_vars

\* the relayer refused the recipient of a message that exists undeleted and
\* whose document is pinned
C20_Witness ==
    /\ ret.op = "handleDecryptMessage"
    /\ ret.err = ClientDecryptionDenied
    /\ ret.args[2] = "userDecrypt"
    /\ ret.caller = messages[ret.args[1]].recipient
    /\ ~messages[ret.args[1]].isDeleted
    /\ Pinned(ipfs, messages[ret.args[1]].contentCID) # {}

\* step is among the steps a read took
Took(steps, step) == \E k \in 1..Len(steps) : steps[k] = step

\* C21: the steps of a read are an initial part of getMessage, signTypedData,
\* userDecrypt, fetch, decryptFileContent, download, in that order, and a
\* step is taken only when the one before it succeeded: the permission is
\* signed only when getMessage returned, userDecrypt is asked only when the
\* permission was signed, the gateway only when userDecrypt answered, the
\* cipher only when the gateway served the document, and the download happens
\* only when the cipher gave the content.  When getMessage reverts (the
\* caller is not the recipient, or the message is deleted) getMessage is the
\* only step.
C21_ReadStepsInOrder ==
    [][ReadStep =>
        LET i == ret'.args[1]
            fault == ret'.args[2]
            steps == ret'.val[1]
            message == getMessage(Storage, ret'.caller, i)
            retrieved == ret'.caller # NoAccount /\ message.err = NoError
            granted ==
                userDecrypt(Storage, ret'.caller,
                            <<messages[i].encryptedSender,
                              messages[i].encryptedKey>>).err = NoError
        IN /\ \/ steps = <<>> /\ ret'.caller = NoAccount
              \/ \E last \in {"getMessage", "signTypedData", "userDecrypt",
                              "fetch", "decryptFileContent", "download"} :
                     steps = StepsTo(last)
           /\ Took(steps, "signTypedData") => retrieved
           /\ Took(steps, "userDecrypt") => fault # "signTypedData"
           /\ Took(steps, "fetch") => (fault # "userDecrypt" /\ granted)
           /\ Took(steps, "decryptFileContent") =>
                  (fault # "fetch" /\ Pinned(ipfs, messages[i].contentCID) # {})
           /\ Took(steps, "download") =>
                  (ret'.err = NoError /\ ret'.val[4] # "")
           /\ (ret'.caller # NoAccount /\ ~retrieved) =>
                  (steps = StepsTo("getMessage") /\ ret'.err = ClientReadFailed)
           /\ (ret'.caller # messages[i].recipient \/ messages[i].isDeleted) =>
                  ~retrieved]_vars

\* an account that is not the recipient asked for a message that exists
\* undeleted with its document pinned: getMessage was the only step
C21_Witness ==
    /\ ret.op = "handleDecryptMessage"
    /\ ret.caller \in Users
    /\ ret.caller # messages[ret.args[1]].recipient
    /\ ~messages[ret.args[1]].isDeleted
    /\ Pinned(ipfs, messages[ret.args[1]].contentCID) # {}
    /\ ret.args[2] = "none"
    /\ ret.val[1] = StepsTo("getMessage")
    /\ ret.err = ClientReadFailed

\* the step is the start of an invocation of handleDecryptMessage
BeginStep ==
    /\ ret'.op = "handleDecryptMessageBegin"
    /\ ReadBegin(ret'.args[1], ret'.args[2])

\* the step is the wallet's answer to a request for a signature
SignedStep ==
    /\ ret'.op = "handleDecryptMessageSigned"
    /\ ReadSigned(ret'.args[1], ret'.args[2])

\* the step is the relayer's answer to a userDecrypt request
DecryptedStep ==
    /\ ret'.op = "handleDecryptMessageDecrypted"
    /\ ReadDecrypted(ret'.args[1], ret'.args[2])

\* the step is the gateway's answer to a fetch
FetchedStep ==
    /\ ret'.op = "handleDecryptMessageFetched"
    /\ ReadFetched(ret'.args[1], ret'.args[2])

\* the invocations whose userDecrypt request has gone to the relayer
Requested == {slot \in ReadSlots : reads[slot].pc \in {"userDecrypt", "fetch"}}

\* the handles a request names
HandlesOf(request) ==
    [k \in 1..Len(request.handleContractPairs) |->
         request.handleContractPairs[k].handle]

WithKeypair == {slot \in ReadSlots : "keypair" \in DOMAIN reads[slot]}

\* the step is a step of the invocation in slot
StepOf(slot) ==
    /\ \/ BeginStep
       \/ SignedStep
       \/ DecryptedStep
       \/ FetchedStep
    /\ ret'.args[1] = slot

\* C23: every invocation of handleDecryptMessage makes its own key pair and
\* its own window and signs its own permission: no two invocations hold the
\* same key pair or send the same signature, and a new invocation never gets
\* a key pair that an invocation before it had.  The request an invocation
\* sends carries its own key pair and the signature over its own permission;
\* the sender and the key it recovers and the content it delivers are those
\* of the message it was started for; and a step of one invocation leaves
\* the other invocation, the ledger, the store and the client as they were,
\* however the steps of the two are interleaved.
C23_ReadsShareNoSession ==
    /\ [](\A a \in WithKeypair, b \in WithKeypair :
            a # b => reads[a].keypair # reads[b].keypair)
    /\ [](\A a \in Requested, b \in Requested :
            a # b => /\ reads[a].request.signature # reads[b].request.signature
                     /\ reads[a].request.privateKey # reads[b].request.privateKey)
    /\ [][(BeginStep /\ ret'.err = ClientPending) =>
            /\ \A b \in WithKeypair :
                   reads'[ret'.args[1]].keypair # reads[b].keypair
            /\ reads'[ret'.args[1]].startTimestamp = clock]_vars
    /\ [][(SignedStep /\ ret'.args[2]) =>
            LET r == reads[ret'.args[1]]
                q == reads'[ret'.args[1]].request
            IN /\ q.privateKey = r.keypair.privateKey
               /\ q.publicKey = r.keypair.publicKey
               /\ q.signature = signTypedData(r.userAddress, r.eip712.message)
               /\ q.startTimestamp = r.startTimestamp]_vars
    /\ [][(DecryptedStep /\ ret'.err = ClientPending) =>
            LET i == reads[ret'.args[1]].messageId
            IN /\ reads'[ret'.args[1]].senderAddress = SignerOf(i)
               /\ reads'[ret'.args[1]].aesKeyHex = DocumentOf(i).content.key]_vars
    /\ [][(FetchedStep /\ ret'.args[2]) =>
            LET i == reads[ret'.args[1]].messageId
            IN /\ reads'[ret'.args[1]].err = NoError
               /\ reads'[ret'.args[1]].val =
                      ReadResult(StepsTo("download"), SignerOf(i),
                                 DocumentOf(i).content.key,
                                 DocumentOf(i).content.plain)]_vars
    /\ [][\A slot \in ReadSlots :
            StepOf(slot) =>
                /\ \A other \in ReadSlots \ {slot} : reads'[other] = reads[other]
                /\ World' = World]_vars

\* the invocation for message 1, started second, has delivered "bye" while
\* the invocation for message 0, started first, still waits for the gateway
C23_Witness ==
    /\ reads[1].pc = "fetch"
    /\ reads[1].messageId = 0
    /\ reads[1].keypair = generateKeypair(1)
    /\ reads[2].pc = "done"
    /\ reads[2].messageId = 1
    /\ reads[2].err = NoError
    /\ reads[2].val[4] = "bye"
    /\ reads[2].keypair = generateKeypair(2)

\* C24: a key of KeyBytes bytes and an address of AddrBytes bytes, whatever
\* their bytes and also when the leading ones are zero, come back as the same
\* bytes from the integer the runtime holds: the integer is written in
\* hexadecimal and padded with zeros on the left to KeyHexLen digits (the
\* key) or AddrHexLen digits (the address), and the digits are read two by
\* two.  The key that comes back always has KeyBytes bytes and the address
\* AddrBytes bytes, and getAddress accepts the digits.
C24_IntegersGiveBackBytes ==
    [](/\ ret.op = "decryptedKey" =>
            /\ ret.val[1] = ret.args[1]
            /\ Len(ret.val[1]) = KeyBytes
       /\ ret.op = "decryptedSender" =>
            /\ ret.val[1]
            /\ ret.val[2] = ret.args[1]
            /\ Len(ret.val[2]) = AddrBytes
       /\ ret.op = "add256" =>
            /\ ret.val[1] \in 0..(16 ^ KeyHexLen - 1)
            /\ Len(padStart(toString16(ret.val[1]), KeyHexLen)) = KeyHexLen
       /\ ret.op = "addAddress" =>
            /\ ret.val[1] \in 0..(16 ^ AddrHexLen - 1)
            /\ Len(padStart(toString16(ret.val[1]), AddrHexLen)) = AddrHexLen)

\* a key whose first byte is zero and whose second byte is below 16 has come
\* back from its integer
C24_Witness ==
    /\ ret.op = "decryptedKey"
    /\ ret.args[1][1] = 0
    /\ ret.args[1][2] = 15
    /\ ret.val[1] = ret.args[1]

\* C25: a content encrypted by encryptFileWithAES and decrypted by
\* decryptFileContent with the key of that encryption and the iv it returned
\* comes back byte for byte, the ciphertext and the iv having gone through
\* their hexadecimal form; the ciphertext is written with two digits for
\* every byte.
C25_CipherRoundTrip ==
    [](/\ ret.op = "decryptFileContent" =>
            /\ ret.val[1]
            /\ ret.val[2] = ret.args[1]
       /\ ret.op = "encryptFileWithAES" =>
            /\ ret.val[2] = ret.args[2]
            /\ hexToBytes(ret.val[3]) = ret.args[3]
            /\ Len(ret.val[1]) = 2 * (Len(ret.args[1]) + 1)
            /\ Len(ret.val[3]) = 2 * IvBytes)

\* a content of two bytes, the first of them zero, has come back from a
\* ciphertext that has a byte below 16
C25_Witness ==
    /\ ret.op = "decryptFileContent"
    /\ Len(ret.args[1]) = 2
    /\ ret.args[1][1] = 0
    /\ ret.val = <<TRUE, ret.args[1]>>
    /\ \E i \in 1..3 :
           subtleEncrypt(ret.args[3], ret.args[2], ret.args[1])[i] < 16

\* C26: the window of every permission starts at the time the invocation
\* builds it and lasts DurationDays = 10 days, and these are the start and
\* the duration signed and sent.  A request that reaches the relayer up to
\* nine days after the start of its window is answered with the cleartexts,
\* and the handler goes on to the gateway; a request that reaches it eleven
\* days after the start or later is refused, and the handler ends with
\* "FHE decryption failed" and nothing in hand.
C26_TenDayWindow ==
    /\ [][(BeginStep /\ ret'.err = ClientPending) =>
            LET r == reads'[ret'.args[1]]
            IN /\ r.startTimestamp = clock
               /\ r.durationDays = 10
               /\ r.eip712.message.startTimestamp = clock
               /\ r.eip712.message.durationDays = 10]_vars
    /\ [](\A slot \in Requested :
            /\ reads[slot].request.durationDays = 10
            /\ reads[slot].request.signature.message.durationDays = 10
            /\ reads[slot].request.signature.message.startTimestamp =
                   reads[slot].request.startTimestamp
            /\ reads[slot].request.startTimestamp <= clock)
    /\ [][DecryptedStep =>
            LET slot == ret'.args[1]
                relayerOk == ret'.args[2]
                day == clock - reads[slot].request.startTimestamp
            IN /\ (relayerOk /\ day <= 9) =>
                      /\ ret'.err = ClientPending
                      /\ reads'[slot].pc = "fetch"
               /\ day >= 11 =>
                      /\ ret'.err = ClientDecryptionDenied
                      /\ reads'[slot] =
                             ReadDone(reads[slot], ClientDecryptionDenied,
                                 ReadResult(StepsTo("userDecrypt"), "", <<>>,
                                            ""))]_vars

\* the relayer was reached on day 11 of a window that started on day 0, and
\* refused
C26_Witness ==
    /\ ret.op = "handleDecryptMessageDecrypted"
    /\ ret.args[2]
    /\ ret.err = ClientDecryptionDenied
    /\ clock = 11
    /\ reads[ret.args[1]].pc = "done"

C28_MetadataNeverFails ==
    [][MetadataStep =>
        /\ ret'.err = NoError
        /\ Len(ret'.val) = 4
        /\ ret'.args[1] >= messageCount =>
               ret'.val = <<ZeroAddress, "", 0, FALSE>>
        /\ Storage' = Storage]_vars

\* with one message on the ledger, deleted, a caller that is not its
\* recipient asked for the metadata of the id that comes next
C28_Witness ==
    /\ ret.op = "getMessageMetadata"
    /\ messageCount = 1
    /\ messages[0].isDeleted
    /\ ret.args = <<1>>
    /\ ret.caller # messages[0].recipient
    /\ ret.val = <<ZeroAddress, "", 0, FALSE>>

\* C29: the timestamps of the messages do not decrease with the ids: for
\* ids i < j < messageCount the timestamp of message i is at most that of
\* message j, the block timestamps never decreasing from one transaction to
\* the next; and no message has a timestamp later than the current block's.
C29_TimestampsDoNotDecrease ==
    [](\A i \in Created, j \in Created :
         /\ i < j => messages[i].timestamp <= messages[j].timestamp
         /\ messages[i].timestamp <= now)

\* the second message was created in a later block than the first, which
\* was deleted in between
C29_Witness ==
    /\ messageCount = 2
    /\ messages[0].timestamp < messages[1].timestamp
    /\ messages[0].isDeleted
    /\ ret.op = "sendMessage"

\* the step starts the command-line task
TaskStartStep ==
    /\ ret'.op = "task:send"
    /\ SendTask(ret'.args[1], ret'.args[2], ret'.args[3])

\* the step is the mining of the task's transaction
TaskMinedStep == ret'.op = "task:mined" /\ SendTaskMined

\* the step is the task's report of the message id
TaskReportStep == ret'.op = "task:report" /\ SendTaskReport

\* the number of characters of key once "0x" is put before a key that does
\* not start with it
PrefixedLength(key) ==
    IF key.prefix = "0x" THEN KeyLength(key) ELSE 2 + KeyLength(key)

C39_ReportedIdIsAssignedId ==
    [][TaskReportStep => ret'.val = <<task.assigned>>]_vars

\* the step is an isRecipient call
IsRecipientStep ==
    /\ ret'.op = "isRecipient"
    /\ IsRecipient(ret'.caller, ret'.args[1])

\* the step is a call of the generated getter of the messages mapping
MessagesGetterStep ==
    /\ ret'.op = "messages"
    /\ MessagesGetter(ret'.caller, ret'.args[1])

\* the handles that the call of the step hands to its caller: of the views,
\* only getMessage and the getter of messages return values of the types
\* eaddress and euint256 (the others return addresses, strings, integers,
\* booleans and lists of integers)
HandlesReturned ==
    IF GetStep /\ ret'.err = NoError THEN {ret'.val[1], ret'.val[3]}
    ELSE IF MessagesGetterStep THEN {ret'.val[1], ret'.val[4]}
    ELSE {}

\* C32: no view of the contract hands the protected handles of a message to
\* a caller other than the recipient of that message, and none hands them out
\* for a deleted message: a call that returns the sender handle or the key
\* handle of a message comes from its recipient, and the message is not
\* deleted.
C32_HandlesOnlyToRecipientOfLiveMessage ==
    [][(/\ GetStep \/ MessagesGetterStep
        /\ ret'.args[1] \in Created
        /\ HandlesReturned \cap Handles # {})
       => /\ ret'.caller = messages[ret'.args[1]].recipient
          /\ ~messages[ret'.args[1]].isDeleted]_vars

\* C33: every id at or above the count has the default record, and no
\* operation changes it: deleteMessage and getMessage on such an id fail for
\* every account ("Not authorized", the ledger as it was), isRecipient
\* answers false to every account, and the sendMessage that is assigned the
\* id finds and leaves isDeleted false.
C33_UnusedIdsAreInert ==
    /\ [](\A i \in Ids : i >= messageCount => messages[i] = DefaultMessage)
    /\ [][(/\ DeleteStep \/ GetStep \/ IsRecipientStep
           /\ ret'.caller \in Users
           /\ ret'.args[1] >= messageCount)
          => /\ DeleteStep =>
                    (ret'.err = ErrNotAuthorized /\ Storage' = Storage)
             /\ GetStep => (ret'.err = ErrNotAuthorized /\ ret'.val = <<>>)
             /\ IsRecipientStep => ret'.val = <<FALSE>>]_vars
    /\ [][(SendStep /\ ret'.err = NoError) =>
            /\ ~messages[messageCount].isDeleted
            /\ ~messages'[messageCount].isDeleted
            /\ ret'.val = <<messageCount>>]_vars

\* with one message created and deleted, bob asked whether it is the
\* recipient of id 1, which no message has yet, and was told it is not
C33_Witness ==
    /\ messageCount = 1
    /\ messages[0].isDeleted
    /\ ret.op = "isRecipient"
    /\ ret.caller = "bob"
    /\ ret.args = <<1>>
    /\ ret.val = <<FALSE>>

\* the sum of the lengths of the lists that index keeps for the addresses in S
RECURSIVE TotalLength(_, _)
TotalLength(index, S) ==
    IF S = {} THEN 0
    ELSE LET a == CHOOSE x \in S : TRUE
         IN Len(index[a]) + TotalLength(index, S \ {a})

\* the list of ids grows strictly, and holds only ids below the count
IncreasingBelowCount(list) ==
    /\ \A k \in 1..Len(list) : list[k] < messageCount
    /\ \A k \in 1..(Len(list) - 1) : list[k] < list[k + 1]

\* C34: in every reachable state each received list and each sent list is
\* strictly increasing and holds only ids below the count; the lengths of
\* the received lists add up to the count, and so do the lengths of the sent
\* lists; the received list of the zero address is empty.
C34_IndexListsPartitionIds ==
    [](/\ \A a \in Addresses :
              /\ IncreasingBelowCount(receivedMessages[a])
              /\ IncreasingBelowCount(sentMessages[a])
       /\ TotalLength(receivedMessages, Addresses) = messageCount
       /\ TotalLength(sentMessages, Addresses) = messageCount
       /\ receivedMessages[ZeroAddress] = <<>>)

\* bob has received two messages, one sent by each account
C34_Witness ==
    /\ messageCount = 2
    /\ receivedMessages["bob"] = <<0, 1>>
    /\ sentMessages["alice"] = <<0>>
    /\ sentMessages["bob"] = <<1>>
    /\ ret.op = "sendMessage"
    /\ ret.err = NoError

\* C35: in every message that the client commits, the address encrypted in
\* the protected sender field is the address of the account that signs the
\* sendMessage transaction: the integer the runtime holds under the
\* message's sender handle is the address of the signer that the MessageSent
\* event names, and the id is in the sent list of that signer; so it is also
\* when the connected account changed after the prepare.
C35_ProtectedSenderIsSigner ==
    /\ [](\A i \in Created :
            /\ Cleartext(messages[i].encryptedSender) = AddressAsInt(SignerOf(i))
            /\ Occurrences(sentMessages[SignerOf(i)], i) = 1)
    /\ [][ConfidentialSendStep /\ client'.tx.status = "pending" =>
            /\ client'.tx.sender = client.account
            /\ Cleartext(client'.tx.encryptedSender) =
                   AddressAsInt(client.account)]_vars

\* alice prepared a message; bob then connected and committed it, and the
\* message carries bob's address under its sender handle
C35_Witness ==
    /\ lastPrepare.account = "alice"
    /\ ret.op = "sendMessageMined"
    /\ ret.err = NoError
    /\ messageCount = 1
    /\ SignerOf(0) = "bob"
    /\ sentMessages["bob"] = <<0>>
    /\ Cleartext(messages[0].encryptedSender) = AddressAsInt("bob")

\* C36: every recipient that the client passes to sendMessage has passed the
\* client's check of the address: the recipient of the transaction issued by
\* a commit is the recipient that was checked by the prepare which produced
\* the committed locator, though the recipient field can be edited between
\* the two.
C36_CommitUsesValidatedRecipient ==
    [][(ConfidentialSendStep /\ client'.tx.status = "pending") =>
          /\ client'.tx.contentCID = client.preparedCid
          /\ client'.tx.recipient = lastPrepare.recipientAddress]_vars

\* the prepared locator, key and flag of the client
PreparedOutput(c) == <<c.preparedCid, c.preparedKey, c.isPrepared>>

\* C37: when the transaction of a commit is confirmed the client clears the
\* prepared locator, the prepared key and the prepared flag, and a commit
\* issues a transaction only while the flag is up, so the same prepared
\* output is not sent again without a new prepare; a commit that fails, at
\* the encryption, at the submission or at the confirmation, leaves the three
\* as they were, and so do a disconnect and a change of account.
C37_PreparedOutputClearedOnlyOnConfirmation ==
    /\ [][(MinedStep /\ ret'.err = NoError) =>
            PreparedOutput(client') = <<"", <<>>, FALSE>>]_vars
    /\ [][(ConfidentialSendStep /\ client'.tx.status = "pending") =>
            (client.isPrepared /\ client'.tx.contentCID = client.preparedCid)]_vars
    /\ [][(\/ ConfidentialSendStep
           \/ MinedStep /\ ret'.err # NoError
           \/ ConnectWalletAny
           \/ DisconnectWallet)
          => PreparedOutput(client') = PreparedOutput(client)]_vars

\* the second message of the client has been confirmed, and nothing is left
\* prepared
C37_Witness ==
    /\ ret.op = "sendMessageMined"
    /\ ret.err = NoError
    /\ messageCount = 2
    /\ PreparedOutput(client) = <<"", <<>>, FALSE>>
    /\ ~client.sending

\* an invocation of handleDecryptMessage or of handleDeleteMessage is inside
\* its try block
InTryBlock ==
    \/ \E slot \in ReadSlots : reads[slot].pc \notin {"idle", "done"}
    \/ deletion.pc = "pending"

====
